---------------------------- MODULE Spec2Model ----------------------------
(***************************************************************************)
(* Model of the SF Sharing Button content script (src/unnamed/part_000,    *)
(* lines 31-521) and of the background relay (src/background.js).          *)
(*                                                                         *)
(* Strings are sequences of one-character strings, so that the regular     *)
(* expressions of the script are computed on the characters of the URL.    *)
(* JavaScript null is the empty sequence Null.                             *)
(***************************************************************************)
EXTENDS Integers, Sequences, FiniteSets, TLC

Null == <<>>

(***************************************************************************)
(* Characters and string helpers.                                          *)
(***************************************************************************)
Digits ==
    {"0","1","2","3","4","5","6","7","8","9"}

LowerCase ==
    {"a","b","c","d","e","f","g","h","i","j","k","l","m",
     "n","o","p","q","r","s","t","u","v","w","x","y","z"}

UpperCase ==
    {"A","B","C","D","E","F","G","H","I","J","K","L","M",
     "N","O","P","Q","R","S","T","U","V","W","X","Y","Z"}

\* the character class [a-zA-Z0-9]
Alnum ==
    LowerCase \cup UpperCase \cup Digits

\* s has lit at position i (1-based)
LitAt(s, i, lit) ==
    /\ i >= 1
    /\ i + Len(lit) - 1 <= Len(s)
    /\ \A k \in 1..Len(lit) : s[i + k - 1] = lit[k]

\* String.prototype.includes
Includes(s, sub) ==
    \E i \in 1..(Len(s) + 1) : LitAt(s, i, sub)

\* n characters of class [a-zA-Z0-9] starting at position c
AlnumRun(s, c, n) ==
    /\ c + n - 1 <= Len(s)
    /\ \A k \in c..(c + n - 1) : s[k] \in Alnum

Max(S) ==
    CHOOSE x \in S : \A y \in S : y <= x

Min(S) ==
    CHOOSE x \in S : \A y \in S : x <= y

\* the element of a one-element set: {F(x) : x \in {e}} applies F to the
\* value of e, so that e is evaluated once
The(S) ==
    CHOOSE x \in S : TRUE

(***************************************************************************)
(* isValidSfId: /^[a-zA-Z0-9]{15}([a-zA-Z0-9]{3})?$/.test(id || "")        *)
(***************************************************************************)
IdLenShort == 15
IdLenLong == 18

isValidSfId_AnyLen(id) ==
    /\ Len(id) \in IdLenShort..IdLenLong
    /\ AlnumRun(id, 1, Len(id))

isValidSfId(id) ==
    /\ Len(id) \in {IdLenShort, IdLenShort + 3}
    /\ AlnumRun(id, 1, Len(id))

(***************************************************************************)
(* The six patterns of extractRecordId.  A pattern is a literal prefix,    *)
(* an optional "[^/]+\/" part, the capture ([a-zA-Z0-9]{15,18}) and a      *)
(* terminator: "/" or the end of the input.                                *)
(***************************************************************************)
LitLightningR ==
    <<"/","l","i","g","h","t","n","i","n","g","/","r","/">>

LitSObject ==
    <<"/","s","O","b","j","e","c","t","/">>

LitR ==
    <<"/","r","/">>

LitSlash ==
    <<"/">>

patterns ==
    << [lit |-> LitLightningR, obj |-> TRUE,  term |-> "slash"],
       [lit |-> LitLightningR, obj |-> FALSE, term |-> "slash"],
       [lit |-> LitSObject,    obj |-> FALSE, term |-> "slash"],
       [lit |-> LitR,          obj |-> TRUE,  term |-> "slash"],
       [lit |-> LitSlash,      obj |-> FALSE, term |-> "end"],
       [lit |-> LitSlash,      obj |-> FALSE, term |-> "slash"] >>

\* the terminator of a pattern holds at position e
TermAt(s, e, term) ==
    IF term = "end" THEN e = Len(s) + 1
    ELSE e <= Len(s) /\ s[e] = "/"

\* lengths n in 15..18 with which the capture can start at c and be
\* followed by the terminator; the quantifier {15,18} is greedy
CaptureLens(s, c, term) ==
    {n \in IdLenShort..IdLenLong : AlnumRun(s, c, n) /\ TermAt(s, c + n, term)}

\* positions at which the capture can start when the pattern starts at i:
\* right after the literal, or after the literal, one or more non-"/"
\* characters and a "/"
CaptureStarts(s, i, pat) ==
    IF ~LitAt(s, i, pat.lit) THEN {}
    ELSE IF ~pat.obj THEN {i + Len(pat.lit)}
    ELSE {c \in (i + Len(pat.lit) + 2)..(Len(s) + 1) :
            /\ s[c - 1] = "/"
            /\ \A k \in (i + Len(pat.lit))..(c - 2) : s[k] # "/"}

MatchesAt(s, i, pat) ==
    \E c \in CaptureStarts(s, i, pat) : CaptureLens(s, c, pat.term) # {}

\* s.match(re): the capture group of the leftmost match, Null if no match
\* (both quantifiers are greedy: the longest object part that matches,
\* then the longest capture)
Match(s, pat) ==
    The({IF starts = {} THEN Null
         ELSE The({SubSeq(s, c, c + Max(CaptureLens(s, c, pat.term)) - 1) :
                     c \in {Max({x \in CaptureStarts(s, Min(starts), pat) :
                                    CaptureLens(s, x, pat.term) # {}})}}) :
            starts \in {{i \in 1..Len(s) : MatchesAt(s, i, pat)}}})

\* decodeURIComponent, for the escape %2F and unescaped characters
RECURSIVE decodeURIComponent(_)
decodeURIComponent(s) ==
    IF s = <<>> THEN <<>>
    ELSE IF LitAt(s, 1, <<"%","2","F">>)
         THEN <<"/">> \o decodeURIComponent(SubSeq(s, 4, Len(s)))
         ELSE <<Head(s)>> \o decodeURIComponent(Tail(s))

\* window.location.hash: the part of the URL from the first "#" on
LocationHash(href) ==
    The({IF hs = {} \/ Min(hs) = Len(href) THEN <<>>
         ELSE SubSeq(href, Min(hs), Len(href)) :
            hs \in {{i \in 1..Len(href) : href[i] = "#"}}})

\* the patterns from k on against one string
RECURSIVE ExtractOne(_, _)
ExtractOne(s, k) ==
    IF k > Len(patterns) THEN Null
    ELSE The({IF m # Null /\ isValidSfId(m) THEN m ELSE ExtractOne(s, k + 1) :
                 m \in {Match(s, patterns[k])}})

ExtractFrom_HrefFirst(href, hash, k) ==
    The({IF m1 # Null THEN m1 ELSE ExtractOne(hash, k) :
            m1 \in {ExtractOne(href, k)}})

RECURSIVE ExtractFrom_Unvalidated(_, _, _)
ExtractFrom_Unvalidated(href, hash, k) ==
    IF k > Len(patterns) THEN Null
    ELSE The({IF m1 # Null THEN m1
              ELSE IF m2 # Null THEN m2
              ELSE ExtractFrom_Unvalidated(href, hash, k + 1) :
                 m1 \in {Match(href, patterns[k])},
                 m2 \in {Match(hash, patterns[k])}})

\* the loop over the patterns: pattern k against the URL, then against the
\* decoded fragment, then pattern k + 1
RECURSIVE ExtractFrom(_, _, _)
ExtractFrom(href, hash, k) ==
    IF k > Len(patterns) THEN Null
    ELSE The({IF m1 # Null /\ isValidSfId(m1) THEN m1
              ELSE IF m2 # Null /\ isValidSfId(m2) THEN m2
              ELSE ExtractFrom(href, hash, k + 1) :
                 m1 \in {Match(href, patterns[k])},
                 m2 \in {Match(hash, patterns[k])}})

\* extractRecordId for the URL href and the data-recordid value of the
\* first element bearing the attribute (Null: no such element)
extractRecordId_UrlOnly(href, dataRec) ==
    The({ExtractFrom(href, hash, 1) :
            hash \in {decodeURIComponent(LocationHash(href))}})

extractRecordId(href, dataRec) ==
    The({IF fromUrl # Null THEN fromUrl
         ELSE IF dataRec # Null /\ isValidSfId(dataRec) THEN dataRec
         ELSE Null :
            fromUrl \in {ExtractFrom(href, hash, 1) :
                           hash \in {decodeURIComponent(LocationHash(href))}}})

(***************************************************************************)
(* The pages the host application can show.  A page is named; Href gives   *)
(* window.location.href.  One browsing context stays on one origin: a run  *)
(* keeps the host of its first page (a cross-origin navigation reloads the *)
(* script).                                                                *)
(***************************************************************************)
OriginLightning ==
    <<"h","t","t","p","s",":","/","/","x",".","l","i","g","h","t","n","i","n","g",".","f","o","r","c","e",".","c","o","m">>

OriginClassic ==
    <<"h","t","t","p","s",":","/","/","x",".","m","y",".","s","a","l","e","s","f","o","r","c","e",".","c","o","m">>

OriginOther ==
    <<"h","t","t","p","s",":","/","/","x",".","v","f",".","f","o","r","c","e",".","c","o","m">>

\* a 15-character and an 18-character record identifier, the value of a
\* data-recordid attribute, and a 16-character token
IdA ==
    <<"0","0","1","A","0","0","0","0","0","0","1","A","b","C","d">>

IdB ==
    <<"a","0","p","5","w","0","0","0","0","0","5","t","y","F","K","A","A","Y">>

IdD ==
    <<"0","0","3","5","w","0","0","0","0","0","A","b","C","d","E">>

Tok16 ==
    <<"0","0","1","1","2","3","4","5","6","7","8","9","0","1","2","3">>

PathAccount ==
    <<"/","l","i","g","h","t","n","i","n","g","/","r","/","A","c","c","o","u","n","t","/">>

PathView ==
    <<"/","v","i","e","w">>

PathList ==
    <<"/","l","i","g","h","t","n","i","n","g","/","o","/","A","c","c","o","u","n","t","/","l","i","s","t">>

PathHome ==
    <<"/","h","o","m","e","/","h","o","m","e",".","j","s","p">>

PathApex ==
    <<"/","a","p","e","x","/","P","a","g","e">>

SharePath ==
    <<"/","p","/","s","h","a","r","e","/","C","u","s","t","o","m","O","b","j","e","c","t","S","h","a","r","i","n","g","D","e","t","a","i","l","?","p","a","r","e","n","t","I","d","=">>

LightningPages == {"LRecA", "LRecB", "LList"}
ClassicPages == {"CRecA", "CRecB", "CTok16", "CHome"}
OtherPages == {"ORecA", "OApex"}
Pages == LightningPages \cup ClassicPages \cup OtherPages

HrefOf(p) ==
    CASE p = "LRecA"  -> OriginLightning \o PathAccount \o IdA \o PathView
      [] p = "LRecB"  -> OriginLightning \o PathAccount \o IdB \o PathView
      [] p = "LList"  -> OriginLightning \o PathList
      [] p = "CRecA"  -> OriginClassic \o <<"/">> \o IdA
      [] p = "CRecB"  -> OriginClassic \o <<"/">> \o IdB \o <<"/","e">>
      [] p = "CTok16" -> OriginClassic \o <<"/">> \o Tok16
      [] p = "CHome"  -> OriginClassic \o PathHome
      [] p = "ORecA"  -> OriginOther \o <<"/">> \o IdA
      [] p = "OApex"  -> OriginOther \o PathApex

Href == [p \in Pages |-> HrefOf(p)]

\* window.location.origin and window.location.hostname of an https URL
SchemeLen == 8

Origin(href) ==
    The({IF ends = {} THEN href ELSE SubSeq(href, 1, Min(ends) - 1) :
            ends \in {{i \in (SchemeLen + 1)..Len(href) : href[i] \in {"/", "?", "#"}}}})

Hostname(href) ==
    The({SubSeq(o, SchemeLen + 1, Len(o)) : o \in {Origin(href)}})

HostMySalesforce ==
    <<"m","y",".","s","a","l","e","s","f","o","r","c","e",".","c","o","m">>

HostLightningForce ==
    <<"l","i","g","h","t","n","i","n","g",".","f","o","r","c","e",".","c","o","m">>

\* hostname.includes('lightning.force.com'), hostname.includes('my.salesforce.com')
IsLightningHost == [p \in Pages |-> Includes(Hostname(Href[p]), HostLightningForce)]

IsClassicHost == [p \in Pages |-> Includes(Hostname(Href[p]), HostMySalesforce)]

SameOrigin(p, q) ==
    Origin(Href[p]) = Origin(Href[q])

\* the values a data-recordid attribute takes in the model
DataRecs == {Null, IdD}

\* extractRecordId per page and data-recordid value
ExtractTable ==
    [p \in Pages |-> [r \in DataRecs |-> extractRecordId(Href[p], r)]]

(***************************************************************************)
(* The document.  The host's designated container (ul.slds-global-actions  *)
(* on a Lightning or other host, div.linkElements on a Classic host) is    *)
(* absent, in the light DOM, or inside an open shadow tree attached to a   *)
(* light-DOM element.  kids are its children, first child first:           *)
(*   "host"     a child rendered by the host page                          *)
(*   "li"       <li id=gpt-sf-sharing-li> holding <button id=gpt-sf-sharing-btn> *)
(*   "liEmpty"  <li id=gpt-sf-sharing-li> without its button               *)
(*   "btn"      <button id=gpt-sf-sharing-btn> (Classic docking)           *)
(* flt: <button id=gpt-sf-sharing-float> is a child of document.body.      *)
(* dataRec: the data-recordid value of the first element bearing one.      *)
(***************************************************************************)
ContPlaces == {"none", "light", "shadow"}
KidKinds == {"host", "li", "liEmpty", "btn"}

\* the longest child list, and the most timers of one kind, in a state from
\* which the host page, the periodic tick or a message may act
MaxKids == 2
MaxRetry == 2
MaxSettle == 2
MaxBatches == 1

SeqHas(q, S) ==
    \E i \in 1..Len(q) : q[i] \in S

RECURSIVE CountIn(_, _)
CountIn(q, S) ==
    IF q = <<>> THEN 0
    ELSE (IF Head(q) \in S THEN 1 ELSE 0) + CountIn(Tail(q), S)

\* document.getElementById(LI_ID), (BTN_ID), (BTN_FLOAT_ID): the lookup
\* covers the document tree, not the shadow trees
hasLi(d) ==
    d.cont = "light" /\ SeqHas(d.kids, {"li", "liEmpty"})

hasBtn(d) ==
    d.cont = "light" /\ SeqHas(d.kids, {"li", "btn"})

hasFloat(d) ==
    d.flt

\* deepQuerySelector("ul.slds-global-actions"): the direct query finds a
\* light-DOM container, the walk over the elements finds one in the open
\* shadow tree of a light-DOM element
deepQuerySelector_LightOnly(d) ==
    d.cont = "light"

deepQuerySelector(d) ==
    d.cont \in {"light", "shadow"}

\* document.querySelector("div.linkElements")
querySelectorLinkElements(d) ==
    d.cont = "light"

\* container.insertBefore(x, container.firstChild) or appendChild(x); a
\* change of the light DOM queues a record for the MutationObserver
Prepend_Append(s, x) ==
    [s EXCEPT !.dom.kids = @ \o <<x>>,
              !.mut = @ \/ s.dom.cont = "light"]

Prepend(s, x) ==
    [s EXCEPT !.dom.kids = <<x>> \o @,
              !.mut = @ \/ s.dom.cont = "light"]

insertInGlobalActionsUl_FloatAware(s) ==
    IF hasLi(s.dom) \/ hasBtn(s.dom) \/ hasFloat(s.dom) THEN [ok |-> TRUE, st |-> s]
    ELSE IF ~deepQuerySelector(s.dom) THEN [ok |-> FALSE, st |-> s]
    ELSE [ok |-> TRUE, st |-> Prepend(s, "li")]

insertInGlobalActionsUl(s) ==
    IF hasLi(s.dom) \/ hasBtn(s.dom) THEN [ok |-> TRUE, st |-> s]
    ELSE IF ~deepQuerySelector(s.dom) THEN [ok |-> FALSE, st |-> s]
    ELSE [ok |-> TRUE, st |-> Prepend(s, "li")]

insertInClassicPage(s) ==
    IF hasLi(s.dom) \/ hasBtn(s.dom) THEN [ok |-> TRUE, st |-> s]
    ELSE IF ~querySelectorLinkElements(s.dom) THEN [ok |-> FALSE, st |-> s]
    ELSE [ok |-> TRUE, st |-> Prepend(s, "btn")]

insertFloatingButton_NoCheck(s) ==
    [s EXCEPT !.dom.flt = TRUE, !.mut = TRUE]

insertFloatingButton(s) ==
    IF hasBtn(s.dom) \/ hasFloat(s.dom) THEN s
    ELSE [s EXCEPT !.dom.flt = TRUE, !.mut = TRUE]

(***************************************************************************)
(* tryInsert (lines 334-388).  The pending setTimeout callbacks are        *)
(* counted per callback: check (checkUrlChange, 100 ms), try (tryInsert    *)
(* after a navigation, 100/500/1000/2000 ms), settle (50 ms), retryL and   *)
(* retryC (the deferred retries of the Lightning and the Classic branch,   *)
(* 1500 ms), settings (tryInsert, 100 ms).                                 *)
(***************************************************************************)
isRecordPageLightning(href) ==
    Includes(href, LitLightningR)

\* /\/[a-zA-Z0-9]{15,18}$/.test(url) || /\/[a-zA-Z0-9]{15,18}\//.test(url)
isRecordPageClassic(href) ==
    \/ Match(href, patterns[5]) # Null
    \/ Match(href, patterns[6]) # Null

\* the two early returns of lines 340-358
GateClosed_NoLightningCheck(p) ==
    IsClassicHost[p] /\ ~isRecordPageClassic(Href[p])

GateClosed_OtherHosts(p) ==
    \/ IsLightningHost[p] /\ ~isRecordPageLightning(Href[p])
    \/ IsClassicHost[p] /\ ~isRecordPageClassic(Href[p])
    \/ ~IsLightningHost[p] /\ ~IsClassicHost[p]

GateClosed(p) ==
    \/ IsLightningHost[p] /\ ~isRecordPageLightning(Href[p])
    \/ IsClassicHost[p] /\ ~isRecordPageClassic(Href[p])

GateTable == [p \in Pages |-> GateClosed(p)]

Schedule(s, kind, n) ==
    [s EXCEPT !.timers[kind] = @ + n]

tryInsert_FloatNow(s) ==
    IF GateTable[s.page] THEN s
    ELSE LET recordId == ExtractTable[s.page][s.dom.dataRec]
         IN  IF IsClassicHost[s.page]
             THEN IF recordId = Null THEN s
                  ELSE The({IF r.ok THEN r.st ELSE insertFloatingButton(s) :
                               r \in {insertInClassicPage(s)}})
             ELSE The({IF r.ok THEN r.st ELSE insertFloatingButton(s) :
                          r \in {insertInGlobalActionsUl(s)}})

tryInsert(s) ==
    IF GateTable[s.page] THEN s
    ELSE LET recordId == ExtractTable[s.page][s.dom.dataRec]
         IN  IF IsClassicHost[s.page]
             THEN IF recordId = Null THEN s
                  ELSE The({IF r.ok THEN r.st ELSE Schedule(s, "retryC", 1) :
                               r \in {insertInClassicPage(s)}})
             ELSE The({IF r.ok THEN r.st ELSE Schedule(s, "retryL", 1) :
                          r \in {insertInGlobalActionsUl(s)}})

\* the callbacks of lines 372-376 and 381-385
deferredRetryClassic(s) ==
    The({IF r.ok THEN r.st ELSE insertFloatingButton(s) :
            r \in {insertInClassicPage(s)}})

deferredRetryLightning_NoFallback(s) ==
    insertInGlobalActionsUl(s).st

deferredRetryLightning(s) ==
    The({IF r.ok THEN r.st ELSE insertFloatingButton(s) :
            r \in {insertInGlobalActionsUl(s)}})

(***************************************************************************)
(* Removal of injected elements.                                           *)
(***************************************************************************)
FirstIdx(q, S) ==
    IF SeqHas(q, S) THEN Min({i \in 1..Len(q) : q[i] \in S}) ELSE 0

RECURSIVE DropIdx(_, _, _)
DropIdx(q, I, k) ==
    IF k > Len(q) THEN <<>>
    ELSE (IF k \in I THEN <<>> ELSE <<q[k]>>) \o DropIdx(q, I, k + 1)

\* element.remove() of the element document.getElementById(BTN_ID) finds
RemoveBtn(d) ==
    LET j == FirstIdx(d.kids, {"li", "btn"})
    IN  IF d.kids[j] = "li"
        THEN [d EXCEPT !.kids[j] = "liEmpty"]
        ELSE [d EXCEPT !.kids = DropIdx(d.kids, {j}, 1)]

\* element.remove() of the element document.getElementById(LI_ID) finds
RemoveLi(d) ==
    [d EXCEPT !.kids = DropIdx(d.kids, {FirstIdx(d.kids, {"li", "liEmpty"})}, 1)]

\* lines 410-420: the three lookups are made first, then each element
\* found is removed (the button inside the <li> leaves with it)
RemoveExisting_KeepFloat(s) ==
    LET d1 == IF hasLi(s.dom) THEN RemoveLi(s.dom) ELSE s.dom
        d2 == IF hasBtn(d1) /\ FirstIdx(s.dom.kids, {"li", "btn"})
                                 # FirstIdx(s.dom.kids, {"li", "liEmpty"})
              THEN RemoveBtn(d1) ELSE d1
    IN  [s EXCEPT !.dom = d2,
                  !.mut = @ \/ hasLi(s.dom) \/ hasBtn(s.dom)]

RemoveExisting(s) ==
    LET d1 == IF hasLi(s.dom) THEN RemoveLi(s.dom) ELSE s.dom
        d2 == IF hasBtn(d1) /\ FirstIdx(s.dom.kids, {"li", "btn"})
                                 # FirstIdx(s.dom.kids, {"li", "liEmpty"})
              THEN RemoveBtn(d1) ELSE d1
    IN  [s EXCEPT !.dom = [d2 EXCEPT !.flt = FALSE],
                  !.mut = @ \/ hasLi(s.dom) \/ hasBtn(s.dom) \/ hasFloat(s.dom)]

(***************************************************************************)
(* checkUrlChange (lines 399-439) and the MutationObserver callback        *)
(* (lines 444-463).                                                        *)
(***************************************************************************)
\* the delays of the four tryInsert timers of lines 426-437
TryDelays == <<100, 500, 1000, 2000>>

Changed_Always(s) ==
    TRUE

Changed(s) ==
    \/ Href[s.page] # s.currentUrl
    \/ ExtractTable[s.page][s.dom.dataRec] # s.lastRecordId

checkUrlChange(s) ==
    IF ~Changed(s) THEN s
    ELSE The({Schedule(s3, "try", Len(TryDelays)) :
                s3 \in {tryInsert(s2) :
                s2 \in {RemoveExisting(s1) :
                s1 \in {[s EXCEPT !.currentUrl = Href[s.page],
                                  !.lastRecordId = ExtractTable[s.page][s.dom.dataRec]]}}}})

\* significant: some record is a childList record with added or removed nodes
observerCallback(s, significant) ==
    The({IF ~(hasLi(s1.dom) \/ hasBtn(s1.dom) \/ hasFloat(s1.dom)) \/ significant
         THEN Schedule(s1, "settle", 1) ELSE s1 :
            s1 \in {checkUrlChange(s)}})

\* the callback removes what is injected and inserts again
settleCallback_Replace(s) ==
    tryInsert(RemoveExisting(s))

\* the callback of lines 457-461
settleCallback(s) ==
    IF ~hasLi(s.dom) /\ ~hasBtn(s.dom) /\ ~hasFloat(s.dom) THEN tryInsert(s) ELSE s

\* the microtask checkpoint at the end of a task: the observer is called
\* with the records queued by the task, and again with those its own
\* changes queued.  Every change the model makes to the light DOM adds or
\* removes a node.
DeliverOnce(s) ==
    IF s.mut THEN observerCallback([s EXCEPT !.mut = FALSE], TRUE) ELSE s

Deliver(s) ==
    The({DeliverOnce(s2) : s2 \in {DeliverOnce(s1) : s1 \in {DeliverOnce(s)}}})

\* the interval callback of lines 499-504
periodicCheck_Never(s) ==
    s

periodicCheck_ViaCheck(s) ==
    checkUrlChange(s)

periodicCheck(s) ==
    IF ~(hasLi(s.dom) \/ hasBtn(s.dom) \/ hasFloat(s.dom)) THEN tryInsert(s) ELSE s

\* the onMessage listener of lines 509-520
onSettingsMessage(s, type) ==
    IF type # "settingsUpdated" THEN s
    ELSE IF hasBtn(s.dom)
         THEN Schedule([s EXCEPT !.dom = RemoveBtn(s.dom), !.mut = TRUE], "settings", 1)
         ELSE IF hasFloat(s.dom)
              THEN Schedule([s EXCEPT !.dom.flt = FALSE, !.mut = TRUE], "settings", 1)
              ELSE s

(***************************************************************************)
(* The click handlers (lines 222-230 and 319-327): what one activation     *)
(* shows and sends.                                                        *)
(***************************************************************************)
NoOutput == [clicked |-> "none", alerts |-> 0, sent |-> <<>>]

\* the listener buildButton registers (lines 222-230)
buildButtonClick_Silent(p, d) ==
    The({IF recordId = Null
         THEN [clicked |-> "docked", alerts |-> 0, sent |-> <<>>]
         ELSE [clicked |-> "docked", alerts |-> 0,
               sent |-> << [type |-> "openSharing",
                            url |-> Origin(Href[p]) \o SharePath \o recordId] >>] :
            recordId \in {ExtractTable[p][d.dataRec]}})

\* the listener sends the identifier of record A, where the element was built
buildButtonClick_InsertionTime(p, d) ==
    [clicked |-> "docked", alerts |-> 0,
     sent |-> << [type |-> "openSharing",
                  url |-> Origin(Href[p]) \o SharePath \o IdA] >>]

buildButtonClick(p, d) ==
    The({IF recordId = Null
         THEN [clicked |-> "docked", alerts |-> 1, sent |-> <<>>]
         ELSE [clicked |-> "docked", alerts |-> 0,
               sent |-> << [type |-> "openSharing",
                            url |-> Origin(Href[p]) \o SharePath \o recordId] >>] :
            recordId \in {ExtractTable[p][d.dataRec]}})

\* the listener insertFloatingButton registers (lines 319-327)
floatingButtonClick_AlertAlso(p, d) ==
    The({IF recordId = Null
         THEN [clicked |-> "float", alerts |-> 1, sent |-> <<>>]
         ELSE [clicked |-> "float", alerts |-> 1,
               sent |-> << [type |-> "openSharing",
                            url |-> Origin(Href[p]) \o SharePath \o recordId] >>] :
            recordId \in {ExtractTable[p][d.dataRec]}})

floatingButtonClick(p, d) ==
    The({IF recordId = Null
         THEN [clicked |-> "float", alerts |-> 1, sent |-> <<>>]
         ELSE [clicked |-> "float", alerts |-> 0,
               sent |-> << [type |-> "openSharing",
                            url |-> Origin(Href[p]) \o SharePath \o recordId] >>] :
            recordId \in {ExtractTable[p][d.dataRec]}})

(***************************************************************************)
(* State.                                                                  *)
(***************************************************************************)
VARIABLES
    loaded,         \* the script body (lines 31-521) has run
    page,           \* window.location, as the name of a page
    dom,            \* the document
    timers,         \* pending setTimeout callbacks, counted per callback
    currentUrl,     \* line 393
    lastRecordId,   \* line 394
    out,            \* alerts shown and messages sent by the last task
    hostQuiet,      \* the host page has stopped navigating and removing
    calls,          \* direct tryInsert calls made (idempotence runs only)
    arg,            \* the argument of a function applied on its own
    ret             \* what that function returned or did

vars ==
    <<loaded, page, dom, timers, currentUrl, lastRecordId, out, hostQuiet, calls,
      arg, ret>>

TimerKinds == {"check", "try", "settle", "retryL", "retryC", "settings"}

NoTimers == [k \in TimerKinds |-> 0]

\* the state of the script and the page as one record; mut: the task has
\* queued a record for the MutationObserver
St ==
    [page |-> page, dom |-> dom, timers |-> timers,
     currentUrl |-> currentUrl, lastRecordId |-> lastRecordId, mut |-> FALSE]

Become(s) ==
    /\ page' = s.page
    /\ dom' = s.dom
    /\ timers' = s.timers
    /\ currentUrl' = s.currentUrl
    /\ lastRecordId' = s.lastRecordId

\* the states from which the host page, the periodic tick and the
\* messages act: the host does not navigate while the attempts of
\* MaxBatches earlier navigations are pending, and so on
Bounded(s) ==
    /\ Len(s.dom.kids) <= MaxKids
    /\ s.timers["retryL"] + s.timers["retryC"] <= MaxRetry
    /\ s.timers["settle"] <= MaxSettle
    /\ s.timers["check"] <= MaxBatches
    /\ s.timers["settings"] <= MaxBatches
    /\ s.timers["try"]
         + (IF s.timers["check"] > 0 \/ Changed(s) THEN Len(TryDelays) ELSE 0)
         <= Len(TryDelays) * MaxBatches

InitialDoms ==
    {[cont |-> c, kids |-> k, flt |-> FALSE, dataRec |-> r] :
        c \in ContPlaces, k \in {<<>>, <<"host">>}, r \in DataRecs}

Init ==
    /\ loaded = FALSE
    /\ page \in Pages
    /\ dom \in {d \in InitialDoms : d.cont = "none" => d.kids = <<>>}
    /\ timers = NoTimers
    /\ currentUrl = Null
    /\ lastRecordId = Null
    /\ out = NoOutput
    /\ hostQuiet = FALSE
    /\ calls = 0
    /\ arg = Null
    /\ ret = Null

(***************************************************************************)
(* The script body: line 390 calls tryInsert, lines 393-394 initialise the *)
(* last-seen values, lines 444-520 install the observer, the listeners,    *)
(* the history wrappers and the interval.  The observer is installed after *)
(* the first tryInsert and does not see its insertion.                     *)
(***************************************************************************)
Load ==
    /\ ~loaded
    /\ loaded' = TRUE
    /\ \E r \in {tryInsert(St)} :
          Become([r EXCEPT !.mut = FALSE,
                           !.currentUrl = Href[page],
                           !.lastRecordId = Null])
    /\ out' = NoOutput
    /\ UNCHANGED <<hostQuiet, calls, arg, ret>>

\* a task of the host page or of the script, followed by the delivery of
\* the mutation records it queued
Task(s) ==
    \E r \in {Deliver(s)} :
        /\ Become(r)
        /\ out' = NoOutput
        /\ UNCHANGED <<loaded, hostQuiet, calls, arg, ret>>

\* the same, for the tasks the model bounds
BoundedTask(s) ==
    \E r \in {Deliver(s)} :
        /\ loaded
        /\ Bounded(r)
        /\ Become(r)
        /\ out' = NoOutput
        /\ UNCHANGED <<loaded, hostQuiet, calls, arg, ret>>

(***************************************************************************)
(* The host page.                                                          *)
(***************************************************************************)
\* back/forward: the URL changes and popstate is dispatched (lines 474-478)
Popstate ==
    \E p \in Pages :
        /\ ~hostQuiet /\ p # page /\ SameOrigin(p, page)
        /\ BoundedTask(Schedule([St EXCEPT !.page = p], "check", 1))

\* the wrappers of lines 484-496
PushState ==
    \E p \in Pages :
        /\ ~hostQuiet /\ p # page /\ SameOrigin(p, page)
        /\ BoundedTask(Schedule([St EXCEPT !.page = p], "check", 1))

ReplaceState ==
    \E p \in Pages :
        /\ ~hostQuiet /\ p # page /\ SameOrigin(p, page)
        /\ BoundedTask(Schedule([St EXCEPT !.page = p], "check", 1))

\* a URL change that reaches no listener of the script
UnseenNavigate ==
    \E p \in Pages :
        /\ ~hostQuiet /\ p # page /\ SameOrigin(p, page)
        /\ BoundedTask([St EXCEPT !.page = p])

HostAddContainer ==
    \E c \in {"light", "shadow"}, k \in {<<>>, <<"host">>} :
        /\ dom.cont = "none"
        /\ BoundedTask([St EXCEPT !.dom.cont = c, !.dom.kids = k, !.mut = (c = "light")])

\* the container leaves the document with its children
HostRemoveContainer ==
    /\ ~hostQuiet
    /\ dom.cont # "none"
    /\ BoundedTask([St EXCEPT !.dom.cont = "none", !.dom.kids = <<>>,
                           !.mut = (dom.cont = "light")])

HostAddDataRecord ==
    \E r \in DataRecs \ {Null} :
        /\ dom.dataRec = Null
        /\ BoundedTask([St EXCEPT !.dom.dataRec = r, !.mut = TRUE])

HostRemoveDataRecord ==
    /\ ~hostQuiet
    /\ dom.dataRec # Null
    /\ BoundedTask([St EXCEPT !.dom.dataRec = Null, !.mut = TRUE])

\* a change of a class, id or data-aura-rendered-by attribute: the observer
\* is called with attribute records only
HostAttrMutation ==
    /\ BoundedTask(observerCallback(St, FALSE))

HostQuiesce ==
    /\ loaded /\ ~hostQuiet
    /\ hostQuiet' = TRUE
    /\ out' = NoOutput
    /\ UNCHANGED <<loaded, page, dom, timers, currentUrl, lastRecordId, calls, arg, ret>>

(***************************************************************************)
(* The timers of the script.                                               *)
(***************************************************************************)
Fire(s, kind) ==
    [s EXCEPT !.timers[kind] = @ - 1]

CheckTimer ==
    /\ timers["check"] > 0
    /\ Task(checkUrlChange(Fire(St, "check")))

TryTimer ==
    /\ timers["try"] > 0
    /\ Task(tryInsert(Fire(St, "try")))

SettleTimer ==
    /\ timers["settle"] > 0
    /\ Task(settleCallback(Fire(St, "settle")))

DeferredRetryLightning ==
    /\ timers["retryL"] > 0
    /\ Task(deferredRetryLightning(Fire(St, "retryL")))

DeferredRetryClassic ==
    /\ timers["retryC"] > 0
    /\ Task(deferredRetryClassic(Fire(St, "retryC")))

SettingsTimer ==
    /\ timers["settings"] > 0
    /\ Task(tryInsert(Fire(St, "settings")))

\* setInterval, every 2000 ms
PeriodicTick ==
    /\ BoundedTask(periodicCheck(St))

(***************************************************************************)
(* Messages and activation.                                                *)
(***************************************************************************)
MessageTypes == {"settingsUpdated", "other"}

OnMessage ==
    \E type \in MessageTypes :
        /\ BoundedTask(onSettingsMessage(St, type))

\* a click on a docked button (in the light DOM or in the shadow tree)
ClickDocked ==
    /\ loaded
    /\ dom.cont # "none" /\ SeqHas(dom.kids, {"li", "btn"})
    /\ out' = buildButtonClick(page, dom)
    /\ UNCHANGED <<loaded, page, dom, timers, currentUrl, lastRecordId, hostQuiet, calls, arg, ret>>

ClickFloat ==
    /\ loaded
    /\ dom.flt
    /\ out' = floatingButtonClick(page, dom)
    /\ UNCHANGED <<loaded, page, dom, timers, currentUrl, lastRecordId, hostQuiet, calls, arg, ret>>

Next ==
    \/ Load
    \/ Popstate
    \/ PushState
    \/ ReplaceState
    \/ UnseenNavigate
    \/ HostAddContainer
    \/ HostRemoveContainer
    \/ HostAddDataRecord
    \/ HostRemoveDataRecord
    \/ HostAttrMutation
    \/ HostQuiesce
    \/ CheckTimer
    \/ TryTimer
    \/ SettleTimer
    \/ DeferredRetryLightning
    \/ DeferredRetryClassic
    \/ SettingsTimer
    \/ PeriodicTick
    \/ OnMessage
    \/ ClickDocked
    \/ ClickFloat

Spec == Init /\ [][Next]_vars

\* every timer that is pending fires, and the interval keeps firing
Fairness ==
    /\ WF_vars(CheckTimer)
    /\ WF_vars(TryTimer)
    /\ WF_vars(SettleTimer)
    /\ WF_vars(DeferredRetryLightning)
    /\ WF_vars(DeferredRetryClassic)
    /\ WF_vars(SettingsTimer)
    /\ WF_vars(PeriodicTick)

FairSpec == Init /\ [][Next]_vars /\ Fairness

(***************************************************************************)
(* tryInsert called directly, twice, with its deferred retries and nothing *)
(* else: no observer, no listener, no host activity.                       *)
(***************************************************************************)
MaxCalls == 2

IdemCall ==
    /\ calls < MaxCalls
    /\ calls' = calls + 1
    /\ \E r \in {tryInsert(St)} : Become([r EXCEPT !.mut = FALSE])
    /\ UNCHANGED <<loaded, out, hostQuiet, arg, ret>>

IdemRetryLightning ==
    /\ timers["retryL"] > 0
    /\ \E r \in {deferredRetryLightning(Fire(St, "retryL"))} :
          Become([r EXCEPT !.mut = FALSE])
    /\ UNCHANGED <<loaded, out, hostQuiet, calls, arg, ret>>

IdemRetryClassic ==
    /\ timers["retryC"] > 0
    /\ \E r \in {deferredRetryClassic(Fire(St, "retryC"))} :
          Become([r EXCEPT !.mut = FALSE])
    /\ UNCHANGED <<loaded, out, hostQuiet, calls, arg, ret>>

NextIdem ==
    \/ IdemCall
    \/ IdemRetryLightning
    \/ IdemRetryClassic

SpecIdem == Init /\ [][NextIdem]_vars

(***************************************************************************)
(* Vocabulary of the properties.                                           *)
(***************************************************************************)
\* a docked injected element (id gpt-sf-sharing-li or gpt-sf-sharing-btn)
\* is in the document, shadow trees included
HasDocked(d) ==
    d.cont # "none" /\ SeqHas(d.kids, {"li", "liEmpty", "btn"})

HasInjected(d) ==
    HasDocked(d) \/ d.flt

\* the injected elements in the document: docked ones and the floating one
InjectedCount(d) ==
    CountIn(d.kids, {"li", "liEmpty", "btn"}) + (IF d.flt THEN 1 ELSE 0)

\* a button the user can click is in the document
Clickable(d) ==
    (d.cont # "none" /\ SeqHas(d.kids, {"li", "btn"})) \/ d.flt

\* one of the three ids is found by document.getElementById
MarkerVisible(d) ==
    hasLi(d) \/ hasBtn(d) \/ hasFloat(d)

\* href has, from position i on, "/" and a token of n characters of
\* [a-zA-Z0-9] that ends at a "/" or at the end of the URL
SlashToken(href, i, n) ==
    /\ i + n <= Len(href)
    /\ href[i] = "/"
    /\ \A k \in (i + 1)..(i + n) : href[k] \in Alnum
    /\ (i + n = Len(href) \/ href[i + n + 1] = "/")

HasTokenOfLen(href, lens) ==
    \E i \in 1..Len(href), n \in lens : SlashToken(href, i, n)

\* the page is record-detail-shaped for its UI mode
RecordShaped(p, d) ==
    /\ IsLightningHost[p] => Includes(Href[p], LitLightningR)
    /\ IsClassicHost[p] =>
          /\ HasTokenOfLen(Href[p], IdLenShort..IdLenLong)
          /\ ExtractTable[p][d.dataRec] # Null

RecordShapedTable ==
    [p \in Pages |-> [r \in DataRecs |->
        RecordShaped(p, [cont |-> "none", kids |-> <<>>, flt |-> FALSE, dataRec |-> r])]]

\* the URL itself contains a valid record identifier: a token of 15 or 18
\* characters
UrlHasValidId == [p \in Pages |-> HasTokenOfLen(Href[p], {IdLenShort, IdLenLong})]

(***************************************************************************)
(* C1: the document never contains a docked injected element and the      *)
(* floating injected element at the same time.                             *)
(***************************************************************************)
C1_NeverBoth ==
    ~(HasDocked(dom) /\ dom.flt)

(***************************************************************************)
(* C2: two tryInsert calls in succession on a record-detail-shaped page    *)
(* leave exactly one injected element once their timers have fired.        *)
(***************************************************************************)
C2_ExactlyOne ==
    (calls = MaxCalls /\ timers = NoTimers /\ RecordShapedTable[page][dom.dataRec])
        => InjectedCount(dom) = 1

(***************************************************************************)
(* C3: a docked insertion attempt that runs while a docked marker or the   *)
(* floating marker exists returns true and creates no element.             *)
(***************************************************************************)
DockedAttempt(s) ==
    IF IsClassicHost[s.page] THEN insertInClassicPage(s) ELSE insertInGlobalActionsUl(s)

C3_MarkerStopsDocking ==
    (MarkerVisible(dom) /\ loaded)
        => \A r \in {DockedAttempt(St)} : r.ok /\ r.st.dom = dom

(***************************************************************************)
(* C4: tryInsert on a page that is not record-detail-shaped inserts no     *)
(* element and schedules no retry timer.                                   *)
(***************************************************************************)
C4_GateSkips ==
    ~RecordShapedTable[page][dom.dataRec]
        => \A r \in {tryInsert(St)} : r.dom = dom /\ r.timers = timers

\* the script has loaded on a page that is not record-detail-shaped: the
\* tryInsert of line 390 has run there and left nothing
C4_Witness ==
    /\ loaded
    /\ currentUrl = Href[page]
    /\ ~RecordShapedTable[page][dom.dataRec]
    /\ dom.cont = "light"
    /\ ~HasInjected(dom)
    /\ timers = NoTimers

(***************************************************************************)
(* C5: on a Classic page tryInsert inserts an element (at once or through  *)
(* its deferred retry) only when the URL itself contains a valid record    *)
(* identifier.                                                             *)
(***************************************************************************)
C5_OnlyWithUrlId ==
    (IsClassicHost[page] /\ ~UrlHasValidId[page])
        => \A r \in {tryInsert(St)} : r.dom = dom /\ r.timers = timers

(***************************************************************************)
(* C6: when the check that follows a history event sees a URL change       *)
(* between two record pages, the previously injected element is removed:   *)
(* after the check at most the newly inserted element is in the document.  *)
(***************************************************************************)
C6_OldElementRemoved ==
    [][(CheckTimer /\ Changed(St)
            /\ RecordShapedTable[page][dom.dataRec]
            /\ InjectedCount(dom) = 1)
          => InjectedCount(dom') <= 1]_vars

(***************************************************************************)
(* C7: a URL change that no trigger has seen (the URL differs from the     *)
(* last-seen one and no timer is pending) is detected by the periodic      *)
(* tick: the task of the tick brings the last-seen URL up to date.         *)
(***************************************************************************)
C7_TickDetectsChange ==
    (loaded /\ Href[page] # currentUrl /\ timers = NoTimers)
        => \A r \in {Deliver(periodicCheck(St))} : r.currentUrl = Href[page]

C9_ButtonBack ==
    [][(SettingsTimer /\ RecordShapedTable[page][dom.dataRec]
            /\ ExtractTable[page][dom.dataRec] # Null)
          => (Clickable(dom') \/ timers'["retryL"] + timers'["retryC"] > 0)]_vars

OriginOfHost ==
    [p \in Pages |->
        IF p \in LightningPages THEN OriginLightning
        ELSE IF p \in ClassicPages THEN OriginClassic
        ELSE OriginOther]

(***************************************************************************)
(* C11: an activation of the docked or of the floating element while an    *)
(* identifier id is extracted sends exactly one message of type            *)
(* openSharing whose url is origin, the sharing path and id, shows no      *)
(* alert and leaves the location of the page as it is.                     *)
(***************************************************************************)
C11_OneMessage ==
    [][((ClickDocked \/ ClickFloat) /\ ExtractTable[page][dom.dataRec] # Null)
          => /\ out'.alerts = 0
             /\ out'.sent =
                  << [type |-> "openSharing",
                      url |-> OriginOfHost[page] \o SharePath
                                \o ExtractTable[page][dom.dataRec]] >>
             /\ page' = page]_vars

C11_Witness ==
    /\ out.clicked = "float"
    /\ ExtractTable[page][dom.dataRec] # Null
    /\ Len(out.sent) = 1

(***************************************************************************)
(* Functions applied on their own: the state of the content script is      *)
(* parked, arg holds the argument and ret the result.                      *)
(***************************************************************************)
mainvars == <<loaded, page, dom, timers, currentUrl, lastRecordId, out, hostQuiet, calls>>

Parked ==
    /\ loaded = FALSE
    /\ page = "LList"
    /\ dom = [cont |-> "none", kids |-> <<>>, flt |-> FALSE, dataRec |-> Null]
    /\ timers = NoTimers
    /\ currentUrl = Null
    /\ lastRecordId = Null
    /\ out = NoOutput
    /\ hostQuiet = FALSE
    /\ calls = 0

(***************************************************************************)
(* The background script (src/background.js).  A message is null or an     *)
(* object; has: the fields the object has.                                 *)
(***************************************************************************)
MaxTabs == 3

SharingUrlA == OriginLightning \o SharePath \o IdA
SharingUrlB == OriginClassic \o SharePath \o IdB

BgMessages ==
    {[nul |-> TRUE, has |-> {}, type |-> "", url |-> <<>>]}
    \cup {[nul |-> FALSE, has |-> h,
           type |-> (IF "type" \in h THEN t ELSE ""),
           url |-> (IF "url" \in h THEN u ELSE <<>>)] :
            h \in SUBSET {"type", "url"},
            t \in {"openSharing", "settingsUpdated", ""},
            u \in {<<>>, SharingUrlA, SharingUrlB}}

\* msg && msg.type === "openSharing" && msg.url
backgroundAccepts_NoUrlCheck(msg) ==
    /\ ~msg.nul
    /\ "type" \in msg.has /\ msg.type = "openSharing"

backgroundAccepts(msg) ==
    /\ ~msg.nul
    /\ "type" \in msg.has /\ msg.type = "openSharing"
    /\ "url" \in msg.has /\ msg.url # <<>>

\* the onMessage listener of lines 15-20; bg: the tabs created and the
\* responses sent so far
backgroundOnMessage(msg, bg) ==
    IF backgroundAccepts(msg)
    THEN [tabs |-> Append(bg.tabs, msg.url),
          responses |-> Append(bg.responses, [ok |-> TRUE])]
    ELSE bg

InitBg ==
    /\ Parked
    /\ arg \in BgMessages
    /\ ret = [tabs |-> <<>>, responses |-> <<>>]

\* the message arg is delivered to the listener; another one is on its way
BgDeliver ==
    /\ Len(ret.tabs) < MaxTabs
    /\ ret' = backgroundOnMessage(arg, ret)
    /\ arg' \in BgMessages
    /\ UNCHANGED mainvars

SpecBg == InitBg /\ [][BgDeliver]_vars

(***************************************************************************)
(* C12: the background listener opens exactly one tab with the url of the  *)
(* message and responds {ok: true} when the message has type openSharing   *)
(* and a non-empty url; for any other message (null, type missing or       *)
(* different, url missing or empty) it opens no tab and sends no response. *)
(***************************************************************************)
C12_BackgroundHandler ==
    [][BgDeliver =>
          IF ~arg.nul /\ arg.has = {"type", "url"}
                /\ arg.type = "openSharing" /\ Len(arg.url) > 0
          THEN /\ ret'.tabs = ret.tabs \o <<arg.url>>
               /\ ret'.responses = ret.responses \o <<[ok |-> TRUE]>>
          ELSE ret' = ret]_vars

\* one message was accepted and a message with an empty url was ignored
C12_Witness ==
    /\ ret.tabs = <<SharingUrlA>>
    /\ ret.responses = <<[ok |-> TRUE]>>
    /\ ~arg.nul /\ arg.type = "openSharing" /\ arg.has = {"type", "url"} /\ arg.url = <<>>

(***************************************************************************)
(* isValidSfId applied to strings of up to MaxStrLen characters: one       *)
(* alphanumeric character repeated, with at most one position replaced by  *)
(* a character outside [a-zA-Z0-9]; and to an absent value (id || "").     *)
(***************************************************************************)
MaxStrLen == 20

Fillers == {"a", "Z", "7"}
BadChars == {"-", "_", "/", " "}

Fill(n, c) == [k \in 1..n |-> c]

TestStrings ==
    {IdA, IdB, IdD, Tok16}
    \cup {Fill(n, c) : n \in 0..MaxStrLen, c \in Fillers}
    \cup UNION {{[Fill(n, c) EXCEPT ![i] = b] : i \in 1..n, c \in Fillers, b \in BadChars} :
                  n \in 1..MaxStrLen}

ValidInputs ==
    {[absent |-> TRUE, str |-> <<>>]}
    \cup {[absent |-> FALSE, str |-> s] : s \in TestStrings}

NotApplied == [done |-> FALSE, val |-> FALSE]

InitValid ==
    /\ Parked
    /\ arg \in ValidInputs
    /\ ret = NotApplied

ApplyIsValidSfId ==
    /\ ~ret.done
    /\ ret' = [done |-> TRUE, val |-> isValidSfId(IF arg.absent THEN Null ELSE arg.str)]
    /\ UNCHANGED arg
    /\ UNCHANGED mainvars

SpecValid == InitValid /\ [][ApplyIsValidSfId]_vars

AllAlnum(s) == \A k \in 1..Len(s) : s[k] \in Alnum

(***************************************************************************)
(* C13: isValidSfId accepts every string of exactly 15 or exactly 18       *)
(* alphanumeric characters and rejects every string of length 14, 16, 17   *)
(* or 19, every string with a non-alphanumeric character, and the empty    *)
(* or absent value.                                                        *)
(***************************************************************************)
C13_ValidityCheck ==
    ret.done =>
        /\ (~arg.absent /\ Len(arg.str) \in {15, 18} /\ AllAlnum(arg.str)) => ret.val
        /\ (Len(arg.str) \in {14, 16, 17, 19}) => ~ret.val
        /\ ~AllAlnum(arg.str) => ~ret.val
        /\ (arg.absent \/ arg.str = <<>>) => ~ret.val

C13_Witness ==
    /\ ret.done /\ ret.val
    /\ Len(arg.str) = 18

(***************************************************************************)
(* extractRecordId applied to URLs built from an origin, a path of one of  *)
(* the documented shapes around a token, a query string and a fragment of  *)
(* one of the shapes (raw or with its slashes escaped), in a document      *)
(* whose elements bearing data-recordid have the values attrs, in          *)
(* document order.                                                         *)
(***************************************************************************)
\* the identifier token of the specification's example: 17 characters
SpecToken ==
    <<"0","0","1","X","X","X","X","X","X","X","X","X","X","X","X","X","X">>

ObjectSegment == <<"A","c","c","o","u","n","t","/">>

QueryString == <<"?","n","o","o","v","e","r","r","i","d","e","=","1">>

Shapes == 0..6

\* 1: /lightning/r/Object/T/view   2: /lightning/r/T/view
\* 3: /sObject/T/view              4: /r/Object/T/view
\* 5: /T                           6: /T/            0: no token
ShapePath(sh, t) ==
    CASE sh = 1 -> LitLightningR \o ObjectSegment \o t \o PathView
      [] sh = 2 -> LitLightningR \o t \o PathView
      [] sh = 3 -> LitSObject \o t \o PathView
      [] sh = 4 -> LitR \o ObjectSegment \o t \o PathView
      [] sh = 5 -> LitSlash \o t
      [] sh = 6 -> LitSlash \o t \o LitSlash
      [] OTHER  -> PathHome

\* encodeURIComponent on the slashes of a fragment
RECURSIVE EscapeSlashes(_)
EscapeSlashes(s) ==
    IF s = <<>> THEN <<>>
    ELSE IF Head(s) = "/" THEN <<"%","2","F">> \o EscapeSlashes(Tail(s))
         ELSE <<Head(s)>> \o EscapeSlashes(Tail(s))

\* a segment of 19 alphanumeric characters
Tok19 == IdB \o <<"Z">>

PathTokens == {IdA, IdB, Tok16, SpecToken, Tok19}
FragmentTokens == {IdA, IdB}

UrlParts ==
    {[origin |-> o, shape |-> sh, tok |-> t, query |-> q,
      fshape |-> fs, ftok |-> ft, fenc |-> fe] :
        o \in {OriginLightning, OriginClassic, OriginOther},
        sh \in Shapes, t \in PathTokens, q \in BOOLEAN,
        fs \in Shapes, ft \in FragmentTokens, fe \in BOOLEAN}

\* window.location.href of the parts
BuildHref(u) ==
    u.origin \o ShapePath(u.shape, u.tok)
      \o (IF u.query THEN QueryString ELSE <<>>)
      \o (IF u.fshape = 0 THEN <<>>
          ELSE <<"#">> \o (IF u.fenc THEN EscapeSlashes(ShapePath(u.fshape, u.ftok))
                           ELSE ShapePath(u.fshape, u.ftok)))

\* no two records of ExtractInputs build the same URL
UrlPartsNormal ==
    {u \in UrlParts :
        /\ u.shape = 0 => u.tok = IdA
        /\ u.fshape = 0 => (u.ftok = IdA /\ ~u.fenc)}

AttrLists == {<<>>, <<IdD>>, <<Tok16, IdD>>, <<IdD, Tok16>>}

ExtractInputs ==
    {[parts |-> u, href |-> BuildHref(u), attrs |-> a] :
        u \in UrlPartsNormal, a \in AttrLists}

\* document.querySelector("[data-recordid]") and its attribute: the value
\* of the first element bearing the attribute
querySelectorDataRecord_AnyValid(attrs) ==
    The({IF valid = {} THEN Null ELSE attrs[Min(valid)] :
            valid \in {{i \in 1..Len(attrs) : isValidSfId(attrs[i])}}})

querySelectorDataRecord(attrs) ==
    IF attrs = <<>> THEN Null ELSE attrs[1]

InitExtract ==
    /\ Parked
    /\ arg \in ExtractInputs
    /\ ret = [done |-> FALSE, val |-> Null]

ApplyExtractRecordId ==
    /\ ~ret.done
    /\ ret' = [done |-> TRUE,
               val |-> extractRecordId(arg.href, querySelectorDataRecord(arg.attrs))]
    /\ UNCHANGED arg
    /\ UNCHANGED mainvars

SpecExtract == InitExtract /\ [][ApplyExtractRecordId]_vars

\* https://x.lightning.force.com/lightning/r/Account/001XXXXXXXXXXXXXX/view
SpecUrl == OriginLightning \o ShapePath(1, SpecToken)

\* the URL is an origin and /lightning/r/Account/<token>/view, nothing more
IsAccountViewUrl(u) ==
    /\ u.origin = OriginLightning /\ u.shape = 1
    /\ ~u.query /\ u.fshape = 0

(***************************************************************************)
(* C14, as stated: for the URL                                             *)
(* https://x.lightning.force.com/lightning/r/Account/001XXXXXXXXXXXXXX/view *)
(* extractRecordId returns 001XXXXXXXXXXXXXX.                              *)
(***************************************************************************)
C14_SpecExample ==
    (ret.done /\ arg.href = SpecUrl) => ret.val = SpecToken

(***************************************************************************)
(* C14, amended: for a URL /lightning/r/Account/<token>/view on a          *)
(* Lightning host extractRecordId returns the token when it has 15 or 18   *)
(* alphanumeric characters; for the 17-character token 001XXXXXXXXXXXXXX   *)
(* it never returns the token, and returns none when no element of the     *)
(* document bears data-recordid.                                           *)
(***************************************************************************)
C14_Amended ==
    (ret.done /\ IsAccountViewUrl(arg.parts)) =>
        /\ (Len(arg.parts.tok) \in {15, 18}) => ret.val = arg.parts.tok
        /\ (arg.parts.tok = SpecToken) =>
              /\ ret.val # SpecToken
              /\ arg.attrs = <<>> => ret.val = Null

C14_Witness ==
    /\ ret.done
    /\ arg.href = SpecUrl
    /\ arg.attrs = <<>>
    /\ ret.val = Null

(***************************************************************************)
(* C15: for every valid identifier ID, extractRecordId returns ID when the *)
(* URL has one of the documented shapes around ID (and no fragment), and   *)
(* when the decoded fragment has one of the shapes around ID (and the      *)
(* path holds no token).                                                   *)
(***************************************************************************)
C15_DocumentedShapes ==
    ret.done =>
        /\ (arg.parts.shape # 0 /\ arg.parts.fshape = 0
                /\ Len(arg.parts.tok) \in {15, 18} /\ AllAlnum(arg.parts.tok))
              => ret.val = arg.parts.tok
        /\ (arg.parts.shape = 0 /\ arg.parts.fshape # 0)
              => ret.val = arg.parts.ftok

\* the only patterns that match the URL are the bare-identifier ones (/ID
\* at the end, /ID/): the path is the token alone and there is no fragment
OnlyBarePattern(u) ==
    /\ u.shape \in {5, 6}
    /\ u.fshape = 0

(***************************************************************************)
(* C16: for a URL whose only matching pattern is a bare-identifier         *)
(* pattern, extractRecordId returns the identifier of the URL only on a    *)
(* legacy host (my.salesforce.com): on any other host the bare-identifier  *)
(* patterns yield no identifier, so with no data-recordid element the      *)
(* result is none.                                                         *)
(***************************************************************************)
C16_BareIdOnlyOnLegacyHost ==
    (ret.done /\ OnlyBarePattern(arg.parts) /\ arg.parts.origin # OriginClassic)
        => /\ ret.val # arg.parts.tok
           /\ arg.attrs = <<>> => ret.val = Null

\* pattern k yields a valid identifier from the string s (Null: it does not)
Yield(s, k) ==
    The({IF m # Null /\ Len(m) \in {15, 18} /\ AllAlnum(m) THEN m ELSE Null :
            m \in {Match(s, patterns[k])}})

\* the patterns that yield a valid identifier from the URL or from the
\* decoded fragment
YieldingPatterns(href) ==
    The({{k \in 1..Len(patterns) : Yield(href, k) # Null \/ Yield(hash, k) # Null} :
            hash \in {decodeURIComponent(LocationHash(href))}})

(***************************************************************************)
(* C17: when no URL or fragment pattern yields a valid identifier,         *)
(* extractRecordId returns the data-recordid value of the first element    *)
(* bearing the attribute if that value is valid, and none otherwise, also  *)
(* when a later element bears a valid value.                               *)
(***************************************************************************)
C17_FirstDataRecord ==
    (ret.done /\ YieldingPatterns(arg.href) = {}) =>
        IF arg.attrs # <<>> /\ Len(arg.attrs[1]) \in {15, 18} /\ AllAlnum(arg.attrs[1])
        THEN ret.val = arg.attrs[1]
        ELSE ret.val = Null

\* the first element bears an invalid value, a later one a valid value
C17_Witness ==
    /\ ret.done
    /\ YieldingPatterns(arg.href) = {}
    /\ arg.attrs = <<Tok16, IdD>>
    /\ ret.val = Null

(***************************************************************************)
(* C18: the earliest-listed pattern that yields a valid identifier from    *)
(* the URL or from the decoded fragment decides the result, whichever of   *)
(* the two sources a later pattern would match; within that pattern the    *)
(* URL is tried before the fragment.                                       *)
(***************************************************************************)
C18_PatternPrecedence ==
    ret.done =>
        \A ks \in {YieldingPatterns(arg.href)} :
            ks # {} =>
                \A hash \in {decodeURIComponent(LocationHash(arg.href))} :
                    ret.val = IF Yield(arg.href, Min(ks)) # Null
                              THEN Yield(arg.href, Min(ks))
                              ELSE Yield(hash, Min(ks))

\* the /sObject/ pattern matches only the decoded fragment, the later /ID/
\* pattern matches the URL with another identifier: the fragment's wins
C18_Witness ==
    /\ ret.done
    /\ arg.parts.shape = 6 /\ arg.parts.tok = IdA
    /\ arg.parts.fshape = 3 /\ arg.parts.ftok = IdB /\ arg.parts.fenc
    /\ ret.val = IdB

(***************************************************************************)
(* deepQuerySelector applied to documents.  A document is the sequence of  *)
(* the elements of root's light tree in document order.  An element        *)
(* matches the selector or not (match); it has no shadow root, an open one *)
(* or a closed one (shadow); its shadow tree holds a matching element or   *)
(* not (smatch) and an element with a nested shadow root (nested) whose    *)
(* tree holds a matching element or not (nmatch).  malformed: the selector *)
(* is not a valid CSS selector, and querySelector throws.                  *)
(***************************************************************************)
MaxEls == 2

ShadowModes == {"none", "open", "closed"}

Elements ==
    {e \in [match : BOOLEAN, shadow : ShadowModes, smatch : BOOLEAN,
            nested : ShadowModes, nmatch : BOOLEAN] :
        /\ e.shadow = "none" => (~e.smatch /\ e.nested = "none")
        /\ e.nested = "none" => ~e.nmatch}

Documents == UNION {[1..n -> Elements] : n \in 0..MaxEls}

\* an element found: the light element at, and the tree it is in (0: the
\* light tree, 1: the shadow tree of at, 2: the nested shadow tree)
NotFound == [at |-> 0, level |-> 0]

\* querySelector(selector) on a tree whose first match is hit (NotFound:
\* no match)
querySelector(hit, malformed) ==
    [thrown |-> malformed, val |-> IF malformed THEN NotFound ELSE hit]

\* try { ... } catch (e) {}
TryCatch_Propagate(q) ==
    q

TryCatch(q) ==
    IF q.thrown THEN [thrown |-> FALSE, val |-> NotFound] ELSE q

\* root.querySelector: the first matching element of the light tree
DirectHit(doc) ==
    The({IF hits = {} THEN NotFound ELSE [at |-> Min(hits), level |-> 0] :
            hits \in {{i \in 1..Len(doc) : doc[i].match}}})

\* the TreeWalker loop of lines 164-172, from element i on: el.shadowRoot
\* is null for no shadow root and for a closed one
RECURSIVE WalkFrom(_, _, _)
WalkFrom(doc, malformed, i) ==
    IF i > Len(doc) THEN [thrown |-> FALSE, val |-> NotFound]
    ELSE IF doc[i].shadow # "open" THEN WalkFrom(doc, malformed, i + 1)
    ELSE The({IF q.thrown \/ q.val # NotFound THEN q
              ELSE WalkFrom(doc, malformed, i + 1) :
                 q \in {TryCatch(querySelector(
                            IF doc[i].smatch THEN [at |-> i, level |-> 1] ELSE NotFound,
                            malformed))}})

\* deepQuerySelector(selector, root), lines 153-174
deepQuerySelectorIn(doc, malformed) ==
    The({IF q.thrown \/ q.val # NotFound THEN q
         ELSE WalkFrom(doc, malformed, 1) :
            q \in {TryCatch(querySelector(DirectHit(doc), malformed))}})

InitDeep ==
    /\ Parked
    /\ arg \in {[doc |-> d, malformed |-> m] : d \in Documents, m \in BOOLEAN}
    /\ ret = [done |-> FALSE, thrown |-> FALSE, val |-> NotFound]

ApplyDeepQuerySelector ==
    /\ ~ret.done
    /\ \E r \in {deepQuerySelectorIn(arg.doc, arg.malformed)} :
          ret' = [done |-> TRUE, thrown |-> r.thrown, val |-> r.val]
    /\ UNCHANGED arg
    /\ UNCHANGED mainvars

SpecDeep == InitDeep /\ [][ApplyDeepQuerySelector]_vars

\* the matching elements in the light tree and in the open shadow trees
\* reachable from root, at any depth
Reachable(doc) ==
    {h \in [at : 1..Len(doc), level : 0..2] :
        \/ h.level = 0 /\ doc[h.at].match
        \/ h.level = 1 /\ doc[h.at].shadow = "open" /\ doc[h.at].smatch
        \/ h.level = 2 /\ doc[h.at].shadow = "open"
              /\ doc[h.at].nested = "open" /\ doc[h.at].nmatch}

\* depth-first order: an element, then its shadow tree, then the nested
\* shadow tree, then the next element
Before(h, g) ==
    h.at < g.at \/ (h.at = g.at /\ h.level < g.level)

(***************************************************************************)
(* C19: with a well-formed selector deepQuerySelector returns a matching   *)
(* element whenever one exists in the light tree or in an open shadow tree *)
(* reachable from root at any nesting depth, the first one in depth-first  *)
(* order, and none only when there is no such element.                     *)
(***************************************************************************)
C19_FindsAtAnyDepth ==
    (ret.done /\ ~arg.malformed) =>
        \A rs \in {Reachable(arg.doc)} :
            IF rs = {} THEN ret.val = NotFound
            ELSE /\ ret.val \in rs
                 /\ \A g \in rs : g = ret.val \/ Before(ret.val, g)

(***************************************************************************)
(* C20: deepQuerySelector never propagates an error: with a malformed      *)
(* selector it returns none; an element with a closed shadow root is       *)
(* passed over and a match in the open shadow tree of a later element is   *)
(* still returned.                                                         *)
(***************************************************************************)
C20_NeverThrows ==
    ret.done =>
        /\ ~ret.thrown
        /\ arg.malformed => ret.val = NotFound
        /\ (~arg.malformed
              /\ \E i \in 1..Len(arg.doc) :
                    arg.doc[i].shadow = "open" /\ arg.doc[i].smatch)
            => ret.val # NotFound
        /\ (\A i \in 1..Len(arg.doc) :
                ~arg.doc[i].match /\ arg.doc[i].shadow # "open")
            => ret.val = NotFound

\* a closed shadow tree with a match, then an open one with a match
C20_Witness ==
    /\ ret.done /\ ~arg.malformed
    /\ Len(arg.doc) = 2
    /\ ~arg.doc[1].match /\ arg.doc[1].shadow = "closed" /\ arg.doc[1].smatch
    /\ ~arg.doc[2].match /\ arg.doc[2].shadow = "open" /\ arg.doc[2].smatch
    /\ ret.val = [at |-> 2, level |-> 1]

(***************************************************************************)
(* Display strings: translations.js and detectLanguage,                    *)
(* getPreferredLanguage, getTranslation of the content script.             *)
(* Language codes are sequences of characters; table values are the        *)
(* strings of translations.js.                                             *)
(***************************************************************************)
LangEn == <<"e","n">>
LangIt == <<"i","t">>
LangNl == <<"n","l">>
LangXx == <<"x","x">>

TranslationKeys == {"buttonText", "buttonTitle", "errorNoRecordId"}

\* const translations = { en: {...}, it: {...}, nl: {...}, ... }
translations ==
    (LangEn :> [buttonText |-> "Sharing",
                buttonTitle |-> "Open Sharing Detail for this record",
                errorNoRecordId |-> "Could not detect a Record Id on this page. Open a record detail page and try again."])
    @@
    (LangIt :> [buttonText |-> "Condivisione",
                buttonTitle |-> "Apri i dettagli di condivisione per questo record",
                errorNoRecordId |-> "Impossibile rilevare un ID record in questa pagina. Apri una pagina di dettaglio record e riprova."])
    @@
    (LangNl :> [buttonText |-> "Delen",
                buttonTitle |-> "Deelgegevens voor dit record openen",
                errorNoRecordId |-> "Kon geen record-ID detecteren op deze pagina. Open een recorddetailpagina en probeer het opnieuw."])

\* a table holding, for each language of have, the keys have[l] of translations
Restrict(have) ==
    [l \in DOMAIN have |-> [k \in have[l] |-> translations[l][k]]]

\* String.prototype.toLowerCase on the letters of language tags
LowerOf ==
    [c \in UpperCase |->
        CASE c = "A" -> "a" [] c = "B" -> "b" [] c = "C" -> "c" [] c = "D" -> "d"
          [] c = "E" -> "e" [] c = "F" -> "f" [] c = "G" -> "g" [] c = "H" -> "h"
          [] c = "I" -> "i" [] c = "J" -> "j" [] c = "K" -> "k" [] c = "L" -> "l"
          [] c = "M" -> "m" [] c = "N" -> "n" [] c = "O" -> "o" [] c = "P" -> "p"
          [] c = "Q" -> "q" [] c = "R" -> "r" [] c = "S" -> "s" [] c = "T" -> "t"
          [] c = "U" -> "u" [] c = "V" -> "v" [] c = "W" -> "w" [] c = "X" -> "x"
          [] c = "Y" -> "y" [] c = "Z" -> "z"]

toLowerCase(s) ==
    [k \in 1..Len(s) |-> IF s[k] \in UpperCase THEN LowerOf[s[k]] ELSE s[k]]

\* browserLang.split('-')[0]
SplitFirst(s) ==
    IF \E k \in 1..Len(s) : s[k] = "-"
    THEN SubSeq(s, 1, Min({k \in 1..Len(s) : s[k] = "-"}) - 1)
    ELSE s

\* navigator.language || navigator.userLanguage || 'en'
browserLang(nav) ==
    IF nav.language # Null THEN nav.language
    ELSE IF nav.userLanguage # Null THEN nav.userLanguage
    ELSE LangEn

\* window.sfSharingTranslations && window.sfSharingTranslations[langCode]
Supported(tbl, langCode) ==
    tbl.loaded /\ langCode \in DOMAIN tbl.t

detectLanguage(nav, tbl) ==
    IF Supported(tbl, toLowerCase(SplitFirst(browserLang(nav))))
    THEN toLowerCase(SplitFirst(browserLang(nav)))
    ELSE LangEn

\* chrome.storage.sync.get with defaults; a throwing store resolves to
\* detectLanguage()
getPreferredLanguage(nav, tbl, store) ==
    IF store.throws THEN detectLanguage(nav, tbl)
    ELSE IF Supported(tbl, IF store.languageMode = "manual"
                           THEN store.selectedLanguage
                           ELSE toLowerCase(SplitFirst(browserLang(nav))))
         THEN (IF store.languageMode = "manual"
               THEN store.selectedLanguage
               ELSE toLowerCase(SplitFirst(browserLang(nav))))
         ELSE LangEn

\* translations[lang]?.[key]
Lookup(tbl, lang, key) ==
    IF tbl.loaded /\ lang \in DOMAIN tbl.t /\ key \in DOMAIN tbl.t[lang]
    THEN tbl.t[lang][key]
    ELSE ""

getTranslation_NoDefault(nav, tbl, key) ==
    IF Lookup(tbl, detectLanguage(nav, tbl), key) # ""
    THEN Lookup(tbl, detectLanguage(nav, tbl), key)
    ELSE key

\* translations[lang]?.[key] || translations['en']?.[key] || key
getTranslation(nav, tbl, key) ==
    IF Lookup(tbl, detectLanguage(nav, tbl), key) # ""
    THEN Lookup(tbl, detectLanguage(nav, tbl), key)
    ELSE IF Lookup(tbl, LangEn, key) # ""
    THEN Lookup(tbl, LangEn, key)
    ELSE key

\* the strings buildButton and its click handler put on the element
buildButtonStrings(nav, tbl) ==
    [label |-> getTranslation(nav, tbl, "buttonText"),
     title |-> getTranslation(nav, tbl, "buttonTitle"),
     error |-> getTranslation(nav, tbl, "errorNoRecordId")]

(***************************************************************************)
(* Inputs of the translation functions: the browser's language tags, the   *)
(* stored settings, the loaded table and the key asked for.                *)
(***************************************************************************)
LanguageTags ==
    {Null, LangEn, <<"e","n","-","U","S">>, LangIt, <<"i","t","-","I","T">>,
     <<"N","L">>, <<"n","l","-","B","E">>, LangXx, <<"x","x","-","Y","Y">>}

Navigators ==
    [language : LanguageTags, userLanguage : {Null, LangIt}]

Stores ==
    [throws : BOOLEAN, languageMode : {"auto", "manual"},
     selectedLanguage : {LangEn, LangIt, LangNl, LangXx}]

KeySets ==
    {TranslationKeys, {"buttonText"}, {}}

Tables ==
    {[loaded |-> FALSE, t |-> Restrict([l \in {} |-> {}])]}
    \cup {[loaded |-> TRUE, t |-> translations]}
    \cup {[loaded |-> TRUE, t |-> Restrict([l \in {LangEn, LangIt} |-> IF l = LangEn THEN e ELSE i])] :
            e \in KeySets, i \in KeySets}
    \cup {[loaded |-> TRUE, t |-> Restrict([l \in {LangIt} |-> i])] : i \in KeySets}

AskedKeys == TranslationKeys \cup {"saveButtonText"}

LangInputs ==
    [nav : Navigators, store : Stores, tbl : Tables, key : AskedKeys]

NotTranslated == [done |-> FALSE, op |-> "none", val |-> "", title |-> "", error |-> ""]

InitLang ==
    /\ Parked
    /\ arg \in LangInputs
    /\ ret = NotTranslated

ApplyGetTranslation ==
    /\ ~ret.done
    /\ ret' = [done |-> TRUE, op |-> "getTranslation",
               val |-> getTranslation(arg.nav, arg.tbl, arg.key),
               title |-> "", error |-> ""]
    /\ UNCHANGED arg
    /\ UNCHANGED mainvars

ApplyBuildButton ==
    /\ ~ret.done
    /\ \E s \in {buildButtonStrings(arg.nav, arg.tbl)} :
          ret' = [done |-> TRUE, op |-> "buildButton",
                  val |-> s.label, title |-> s.title, error |-> s.error]
    /\ UNCHANGED arg
    /\ UNCHANGED mainvars

SpecLang == InitLang /\ [][ApplyGetTranslation \/ ApplyBuildButton]_vars

\* the language the specification resolves: the manual selection when the
\* mode is manual and the language is supported, else the detected browser
\* language, else 'en'
SpecResolvedLanguage(nav, tbl, store) ==
    IF ~store.throws /\ store.languageMode = "manual"
       /\ Supported(tbl, store.selectedLanguage)
    THEN store.selectedLanguage
    ELSE detectLanguage(nav, tbl)

(***************************************************************************)
(* C21: the label, tooltip and error message of the injected element are   *)
(* those of the language resolved in the order manual selection (mode      *)
(* 'manual', language supported), detected browser language, 'en': a       *)
(* supported manual selection overrides the browser-detected language.     *)
(***************************************************************************)
C21_ManualOverrides ==
    (ret.done /\ ret.op = "buildButton" /\ arg.tbl.t = translations /\ arg.tbl.loaded) =>
        \A l \in {SpecResolvedLanguage(arg.nav, arg.tbl, arg.store)} :
            /\ ret.val = translations[l]["buttonText"]
            /\ ret.title = translations[l]["buttonTitle"]
            /\ ret.error = translations[l]["errorNoRecordId"]

\* the primary subtag of the browser's language tag, in lower case
PrimaryCode(nav) ==
    toLowerCase(SplitFirst(browserLang(nav)))

HasKey(tbl, lang, key) ==
    tbl.loaded /\ lang \in DOMAIN tbl.t /\ key \in DOMAIN tbl.t[lang]

InitReinsert ==
    /\ loaded = TRUE
    /\ page \in {"LRecA", "CRecA"}
    /\ dom \in {[cont |-> "light",
                 kids |-> <<IF IsClassicHost[page] THEN "btn" ELSE "li">> \o k,
                 flt |-> FALSE, dataRec |-> Null] : k \in {<<>>, <<"host">>}}
    /\ timers = NoTimers
    /\ currentUrl = Href[page]
    /\ lastRecordId = ExtractTable[page][Null]
    /\ out = NoOutput
    /\ hostQuiet = FALSE
    /\ calls = 0
    /\ arg = Null
    /\ ret = Null

ReinsertRemove ==
    /\ calls = 0
    /\ calls' = 1
    /\ \E r \in {Deliver([St EXCEPT !.dom.cont = "none", !.dom.kids = <<>>,
                                   !.mut = TRUE])} : Become(r)
    /\ out' = NoOutput
    /\ UNCHANGED <<loaded, hostQuiet, arg, ret>>

ReinsertAdd ==
    \E c \in {"light", "shadow"}, k \in {<<>>, <<"host">>} :
        /\ calls = 1
        /\ calls' = 2
        /\ \E r \in {Deliver([St EXCEPT !.dom.cont = c, !.dom.kids = k,
                                       !.mut = (c = "light")])} : Become(r)
        /\ out' = NoOutput
        /\ UNCHANGED <<loaded, hostQuiet, arg, ret>>

NextReinsert ==
    \/ ReinsertRemove
    \/ ReinsertAdd
    \/ SettleTimer
    \/ DeferredRetryLightning
    \/ DeferredRetryClassic
    \/ PeriodicTick

SpecReinsert == InitReinsert /\ [][NextReinsert]_vars

(***************************************************************************)
(* C23: on a record page whose URL and identifier do not change, after the *)
(* host has removed its container with the docked element and re-inserted  *)
(* a container, exactly one injected element exists once the settle timer  *)
(* and all deferred retries have fired.                                    *)
(***************************************************************************)
C23_OneAfterReinsertion ==
    (calls = 2 /\ timers = NoTimers) => InjectedCount(dom) = 1

(***************************************************************************)
(* C24: a deferred retry that fires after the loop has processed a         *)
(* navigation to a page where insertion is skipped (the last-seen URL is   *)
(* that of the current page and tryInsert returns at its gate there)       *)
(* inserts no element.                                                     *)
(***************************************************************************)
C24_StaleRetryInsertsNothing ==
    [][((DeferredRetryLightning \/ DeferredRetryClassic)
          /\ GateTable[page] /\ currentUrl = Href[page])
        => (InjectedCount(dom') <= InjectedCount(dom) /\ dom'.flt = dom.flt)]_vars

\* tryInsert passes its gates on this page and its docked attempt fails
DockedAttemptFails ==
    /\ ~GateTable[page]
    /\ IsClassicHost[page] => ExtractTable[page][dom.dataRec] # Null
    /\ ~DockedAttempt(St).ok

RetryCount(t) ==
    t["retryL"] + t["retryC"]

(***************************************************************************)
(* C25: a tryInsert invocation whose docked attempt fails schedules        *)
(* exactly one deferred retry and inserts nothing in that step; the        *)
(* floating element is created only by a deferred retry whose own docked   *)
(* attempt failed, never by tryInsert and never by a retry whose docked    *)
(* attempt succeeds.                                                       *)
(***************************************************************************)
C25_RetryThenFloat ==
    [][/\ ((Load \/ TryTimer \/ SettingsTimer
              \/ ((SettleTimer \/ PeriodicTick) /\ ~dom.flt))
            /\ DockedAttemptFails)
          => (dom' = dom /\ RetryCount(timers') = RetryCount(timers) + 1)
       /\ (dom'.flt /\ ~dom.flt)
          => ((DeferredRetryLightning \/ DeferredRetryClassic)
                /\ ~DockedAttempt(St).ok)]_vars

\* a deferred retry has created the floating element on a record page
\* without container, and no timer is left
C25_Witness ==
    /\ loaded /\ page = "LRecA"
    /\ dom.flt /\ dom.cont = "none"
    /\ timers = NoTimers

(***************************************************************************)
(* C26: immediately after a docked insertion that inserted an element, the *)
(* element (the li on Lightning, the button on Classic) is the first child *)
(* of the host container and the container's former children follow it,    *)
(* whether the container was empty or not.                                 *)
(***************************************************************************)
C26_FirstChild ==
    loaded =>
        \A r \in {DockedAttempt(St)} :
            (r.ok /\ r.st.dom # dom) =>
                /\ r.st.dom.kids # <<>>
                /\ r.st.dom.kids[1] = (IF IsClassicHost[page] THEN "btn" ELSE "li")
                /\ Tail(r.st.dom.kids) = dom.kids
                /\ r.st.dom.cont = dom.cont

\* the element has been docked in front of a child of the host
C26_Witness ==
    /\ loaded
    /\ dom.cont = "light"
    /\ dom.kids = <<"li", "host">>
    /\ ~IsClassicHost[page]

\* checkUrlChange after lines 406-420: the last-seen values are updated and
\* the elements found under the three ids are removed
AfterRemoval(s) ==
    RemoveExisting([s EXCEPT !.currentUrl = Href[s.page],
                             !.lastRecordId = ExtractTable[s.page][s.dom.dataRec]])

(***************************************************************************)
(* C27: when checkUrlChange observes a URL or identifier different from    *)
(* the last-seen values, it updates the last-seen values, removes every    *)
(* element carrying one of the three markers, so that none remains before  *)
(* the first insertion attempt, then runs tryInsert once and schedules     *)
(* four further tryInsert calls (100, 500, 1000, 2000 ms).                 *)
(***************************************************************************)
C27_ChangeReaction ==
    (loaded /\ Changed(St)) =>
        \A s2 \in {AfterRemoval(St)} :
            /\ s2.currentUrl = Href[page]
            /\ s2.lastRecordId = ExtractTable[page][dom.dataRec]
            /\ InjectedCount(s2.dom) = 0
            /\ checkUrlChange(St) = Schedule(tryInsert(s2), "try", Len(TryDelays))
            /\ checkUrlChange(St).timers["try"] = timers["try"] + 4

(***************************************************************************)
(* C28: on a mutation signal without URL or identifier change the observer *)
(* inserts nothing itself, it only arms the 50 ms settle timer; the timer  *)
(* re-checks the three markers when it fires and calls tryInsert only if   *)
(* none is present, so an element that another callback inserted during    *)
(* the settle delay is not duplicated.                                     *)
(***************************************************************************)
C28_SettleRechecks ==
    [][/\ (HostAttrMutation /\ ~Changed(St))
          => (dom' = dom /\ \A k \in TimerKinds \ {"settle"} : timers'[k] = timers[k])
       /\ (SettleTimer /\ ~Changed(St) /\ MarkerVisible(dom))
          => dom' = dom
       /\ (SettleTimer /\ ~Changed(St) /\ HasInjected(dom))
          => InjectedCount(dom') = InjectedCount(dom)]_vars

(***************************************************************************)
(* The history wrappers (lines 480-496).  The session history is a list    *)
(* of pages with the index of the current entry; location.href is the URL  *)
(* of the current entry.  calls counts the wrapper calls, arg is the last  *)
(* call, ret the session history.  A run starts right after the script has *)
(* loaded and its first tryInsert has left no retry pending.               *)
(***************************************************************************)
MaxHistory == 3

HistoryMethods == {"pushState", "replaceState"}

\* originalPushState / originalReplaceState applied to (state, title, url)
historyOriginal(h, method, p) ==
    IF method = "pushState"
    THEN [entries |-> SubSeq(h.entries, 1, h.idx) \o <<p>>, idx |-> h.idx + 1]
    ELSE [h EXCEPT !.entries[h.idx] = p]

historyWrapper_Twice(s, h, method, p) ==
    [st |-> Schedule([s EXCEPT !.page = p], "check", 1),
     hist |-> historyOriginal(historyOriginal(h, method, p), method, p)]

\* originalPushState.apply(history, args); setTimeout(checkUrlChange, 100)
historyWrapper(s, h, method, p) ==
    The({[st |-> Schedule([s EXCEPT !.page = h2.entries[h2.idx]], "check", 1),
          hist |-> h2] : h2 \in {historyOriginal(h, method, p)}})

InitHistory ==
    /\ loaded = TRUE
    /\ page \in {"LRecA", "LList", "CRecA", "CHome"}
    /\ timers = NoTimers
    /\ currentUrl = Href[page]
    /\ lastRecordId = Null
    /\ dom \in {r.dom : r \in {tryInsert([page |-> page, dom |-> d, timers |-> NoTimers,
                                           currentUrl |-> Null, lastRecordId |-> Null,
                                           mut |-> FALSE]) :
                    d \in {[cont |-> c, kids |-> <<>>, flt |-> FALSE, dataRec |-> Null] :
                              c \in {"none", "light"}}} \cap
                 {r \in [page : {page}, dom : [cont : {"none", "light"},
                                               kids : {<<>>, <<"li">>, <<"btn">>},
                                               flt : {FALSE}, dataRec : {Null}],
                         timers : {NoTimers}, currentUrl : {Null},
                         lastRecordId : {Null}, mut : BOOLEAN] : TRUE}}
    /\ out = NoOutput
    /\ hostQuiet = FALSE
    /\ calls = 0
    /\ arg = [method |-> "none", url |-> page]
    /\ ret = [entries |-> <<page>>, idx |-> 1]

HistoryCall(method, p) ==
    /\ calls < MaxHistory
    /\ calls' = calls + 1
    /\ arg' = [method |-> method, url |-> p]
    /\ \E r \in {historyWrapper(St, ret, method, p)} :
          /\ Bounded(r.st)
          /\ ret' = r.hist
          /\ Become(Deliver(r.st))
    /\ out' = NoOutput
    /\ UNCHANGED <<loaded, hostQuiet>>

HistPushState ==
    \E p \in Pages :
        /\ SameOrigin(p, page)
        /\ HistoryCall("pushState", p)

HistReplaceState ==
    \E p \in Pages :
        /\ SameOrigin(p, page)
        /\ HistoryCall("replaceState", p)

NextHistory ==
    \/ HistPushState
    \/ HistReplaceState
    \/ CheckTimer
    \/ TryTimer
    \/ SettleTimer
    \/ DeferredRetryLightning
    \/ DeferredRetryClassic

SpecHistory == InitHistory /\ [][NextHistory]_vars

(***************************************************************************)
(* C29: every call of the wrapped history.pushState / replaceState         *)
(* performs the original operation exactly once with the arguments of the  *)
(* call and then arms exactly one checkUrlChange timer (100 ms), doing     *)
(* nothing else; the check, when it fires, observes the URL the history    *)
(* operation has put in effect.                                            *)
(***************************************************************************)
C29_WrapperKeepsOriginal ==
    [][/\ (calls' = calls + 1) =>
            /\ ret' = historyOriginal(ret, arg'.method, arg'.url)
            /\ page' = arg'.url
            /\ timers' = [timers EXCEPT !["check"] = @ + 1]
            /\ dom' = dom /\ currentUrl' = currentUrl /\ lastRecordId' = lastRecordId
       /\ CheckTimer =>
            /\ page' = ret.entries[ret.idx]
            /\ currentUrl' = Href[ret.entries[ret.idx]]
            /\ ret' = ret]_vars

\* two pushState calls and one replaceState call have been made and the
\* check has seen the last URL
C29_Witness ==
    /\ calls = 3
    /\ Len(ret.entries) = 3 /\ ret.idx = 3
    /\ arg.method = "replaceState"
    /\ ret.entries[3] = arg.url
    /\ ret.entries[2] # ret.entries[3]
    /\ currentUrl = Href[arg.url]
    /\ timers["check"] = 0

\* the result r of a function leaves the two last-seen variables as they are
LastSeenUntouched(r) ==
    r.currentUrl = currentUrl /\ r.lastRecordId = lastRecordId

(***************************************************************************)
(* C30: currentUrl and lastRecordId are written only by checkUrlChange.    *)
(* tryInsert, the docked and the floating insertion, the deferred retries, *)
(* the settle callback, the periodic tick, the settingsUpdated handler and *)
(* the click handlers leave both unchanged; a step that changes one of     *)
(* them after loading leaves the values checkUrlChange assigns.            *)
(***************************************************************************)
C30_LastSeenFrame ==
    [][/\ loaded =>
            /\ LastSeenUntouched(tryInsert(St))
            /\ LastSeenUntouched(DockedAttempt(St).st)
            /\ LastSeenUntouched(insertFloatingButton(St))
            /\ LastSeenUntouched(deferredRetryLightning(St))
            /\ LastSeenUntouched(deferredRetryClassic(St))
            /\ LastSeenUntouched(settleCallback(St))
            /\ LastSeenUntouched(periodicCheck(St))
            /\ \A type \in MessageTypes : LastSeenUntouched(onSettingsMessage(St, type))
       /\ (ClickDocked \/ ClickFloat)
            => (currentUrl' = currentUrl /\ lastRecordId' = lastRecordId)
       /\ (loaded /\ (currentUrl' # currentUrl \/ lastRecordId' # lastRecordId))
            => /\ currentUrl' = Href[page']
               /\ lastRecordId' = ExtractTable[page'][dom'.dataRec]]_vars

\* the periodic tick has acted on a page whose URL the script has not seen:
\* the element is docked and the last-seen URL is still the old one
C30_Witness ==
    /\ loaded
    /\ page = "LRecA"
    /\ currentUrl = Href["LList"]
    /\ HasDocked(dom)
    /\ timers = NoTimers

(***************************************************************************)
(* C31: the identifier an activation sends is extracted at activation time *)
(* from the current URL and DOM, not taken from the time of insertion or   *)
(* from lastRecordId: when the page has moved to another record and the    *)
(* element is still there, the activation sends the URL for the current    *)
(* record.                                                                 *)
(***************************************************************************)
C31_IdAtActivation ==
    [][((ClickDocked \/ ClickFloat)
          /\ ExtractTable[page][dom.dataRec] # Null
          /\ lastRecordId # ExtractTable[page][dom.dataRec])
        => /\ Len(out'.sent) = 1
           /\ \A n \in {Len(ExtractTable[page][dom.dataRec])}, u \in {out'.sent[1].url} :
                /\ SubSeq(u, Len(u) - n + 1, Len(u)) = ExtractTable[page][dom.dataRec]
                /\ (lastRecordId # Null /\ Len(lastRecordId) <= Len(u))
                      => SubSeq(u, Len(u) - Len(lastRecordId) + 1, Len(u)) # lastRecordId]_vars

\* the element docked on record A is activated on record B before the
\* loop has seen the navigation
C31_Witness ==
    /\ out.clicked = "docked"
    /\ page = "LRecB"
    /\ lastRecordId = IdA
    /\ currentUrl = Href["LRecA"]
    /\ HasDocked(dom)
    /\ out.sent = << [type |-> "openSharing",
                      url |-> OriginLightning \o SharePath \o IdB] >>

(***************************************************************************)
(* extractRecordId with the exception of line 122: decodeURIComponent      *)
(* throws URIError when the fragment holds a "%" that is not followed by   *)
(* two hexadecimal digits, and extractRecordId has no handler.             *)
(***************************************************************************)
HexDigits ==
    Digits \cup {"a","b","c","d","e","f","A","B","C","D","E","F"}

MalformedEscape(s) ==
    \E i \in 1..Len(s) :
        /\ s[i] = "%"
        /\ ~(i + 2 <= Len(s) /\ s[i + 1] \in HexDigits /\ s[i + 2] \in HexDigits)

extractRecordIdOrThrow(href, dataRec) ==
    IF MalformedEscape(LocationHash(href))
    THEN [thrown |-> TRUE, val |-> Null]
    ELSE [thrown |-> FALSE, val |-> extractRecordId(href, dataRec)]

\* the URLs of ExtractInputs, as they are and with a fragment that ends in
\* a lone "%"
FragmentInputs ==
    {[parts |-> x.parts, href |-> x.href \o t, attrs |-> x.attrs] :
        x \in ExtractInputs, t \in {<<>>, <<"#","5","0","%">>}}

InitFragment ==
    /\ Parked
    /\ arg \in FragmentInputs
    /\ ret = [done |-> FALSE, thrown |-> FALSE, val |-> Null]

ApplyExtractOrThrow ==
    /\ ~ret.done
    /\ \E r \in {extractRecordIdOrThrow(arg.href, querySelectorDataRecord(arg.attrs))} :
          ret' = [done |-> TRUE, thrown |-> r.thrown, val |-> r.val]
    /\ UNCHANGED arg
    /\ UNCHANGED mainvars

SpecFragment == InitFragment /\ [][ApplyExtractOrThrow]_vars

\* val stands in str as a whole token: "/" on its left, "/" or the end of
\* str on its right
WholeTokenIn(str, val) ==
    \E i \in 1..Len(str) :
        /\ SlashToken(str, i, Len(val))
        /\ SubSeq(str, i + 1, i + Len(val)) = val

(***************************************************************************)
(* C32: for every URL, fragment and DOM extractRecordId returns none or a  *)
(* string that passes the validity check; a string it takes from the URL   *)
(* or the fragment is a whole token, with "/" on its left and "/" or the   *)
(* end of the string on its right, so a segment of 16, 17 or 19            *)
(* alphanumeric characters yields neither itself nor a part of it.         *)
(***************************************************************************)
C32_WholeValidToken ==
    ret.done =>
        /\ ~ret.thrown
        /\ ret.val = Null
             \/ (Len(ret.val) \in {IdLenShort, IdLenLong} /\ AllAlnum(ret.val))
        /\ (ret.val # Null /\ ret.val # querySelectorDataRecord(arg.attrs))
             => \/ WholeTokenIn(arg.href, ret.val)
                \/ WholeTokenIn(decodeURIComponent(LocationHash(arg.href)), ret.val)
        /\ (arg.parts.tok \in {Tok16, SpecToken, Tok19} /\ arg.parts.fshape = 0)
             => ret.val \in {Null, querySelectorDataRecord(arg.attrs)}

(***************************************************************************)
(* The options page: saveSettings (lines 666-694).  arg holds the open     *)
(* tabs (TRUE: the tab runs the content script), the settings chosen and   *)
(* whether the store accepts the write; ret is the state of the save:      *)
(* phase, the stored settings, and per tab whether the message is in       *)
(* flight, delivered or rejected.  chrome.tabs.sendMessage returns a       *)
(* promise (the code calls .catch on it).                                  *)
(***************************************************************************)
MaxOptionTabs == 3

DefaultSettings == [languageMode |-> "auto", selectedLanguage |-> LangEn]

SettingsChoices ==
    [languageMode : {"auto", "manual"}, selectedLanguage : {LangEn, LangIt}]

TabLists ==
    UNION {[1..n -> BOOLEAN] : n \in 0..MaxOptionTabs}

InitOptions ==
    /\ Parked
    /\ arg \in [tabs : TabLists, settings : SettingsChoices, writeOk : BOOLEAN]
    /\ ret = [phase |-> "idle", store |-> DefaultSettings, status |-> FALSE,
              inflight |-> {}, delivered |-> {}, rejected |-> {}]

\* the click on saveBtn: chrome.storage.sync.set(settings, callback)
OptSave ==
    /\ ret.phase = "idle"
    /\ ret' = [ret EXCEPT !.phase = "writing"]
    /\ UNCHANGED arg
    /\ UNCHANGED mainvars

\* the callback of storage.sync.set: showStatus, chrome.tabs.query({}, ...)
OptStoreCallback ==
    /\ ret.phase = "writing"
    /\ ret' = [ret EXCEPT !.phase = "querying",
                          !.store = IF arg.writeOk THEN arg.settings ELSE @,
                          !.status = TRUE]
    /\ UNCHANGED arg
    /\ UNCHANGED mainvars

sendToTabs_StopAtFailure(tabs) ==
    {t \in 1..Len(tabs) : \A u \in 1..t : tabs[u]}

\* tabs.forEach(tab => chrome.tabs.sendMessage(tab.id, ...).catch(...)):
\* the tabs a message is sent to
sendToTabs(tabs) ==
    1..Len(tabs)

\* the callback of chrome.tabs.query
OptTabsCallback ==
    /\ ret.phase = "querying"
    /\ ret' = [ret EXCEPT !.phase = "sent", !.inflight = sendToTabs(arg.tabs)]
    /\ UNCHANGED arg
    /\ UNCHANGED mainvars

\* a message reaches the listener of its tab, or its promise is rejected
\* and the rejection is caught
OptDeliver ==
    \E t \in ret.inflight :
        /\ ret' = [ret EXCEPT !.inflight = @ \ {t},
                              !.delivered = IF arg.tabs[t] THEN @ \cup {t} ELSE @,
                              !.rejected = IF arg.tabs[t] THEN @ ELSE @ \cup {t}]
        /\ UNCHANGED arg
        /\ UNCHANGED mainvars

NextOptions ==
    \/ OptSave
    \/ OptStoreCallback
    \/ OptTabsCallback
    \/ OptDeliver

SpecOptions == InitOptions /\ [][NextOptions]_vars

(***************************************************************************)
(* C33: on saving, the settingsUpdated message is sent to tabs only after  *)
(* the store has called back for the write; it is sent to every open tab;  *)
(* and a tab without content script, whose delivery fails, does not keep   *)
(* the message from the other tabs.                                        *)
(***************************************************************************)
C33_NotifyAfterWrite ==
    /\ (ret.inflight \cup ret.delivered \cup ret.rejected # {})
          => (ret.phase = "sent" /\ ret.status
                /\ (arg.writeOk => ret.store = arg.settings))
    /\ ret.phase = "sent"
          => ret.inflight \cup ret.delivered \cup ret.rejected = 1..Len(arg.tabs)
    /\ (ret.phase = "sent" /\ ret.inflight = {})
          => ret.delivered = {t \in 1..Len(arg.tabs) : arg.tabs[t]}

\* the first tab has no content script, the other two got the message
C33_Witness ==
    /\ ret.phase = "sent" /\ ret.inflight = {}
    /\ arg.tabs = <<FALSE, TRUE, TRUE>>
    /\ ret.rejected = {1}
    /\ ret.delivered = {2, 3}
    /\ ret.store = arg.settings

(***************************************************************************)
(* C34: checkUrlChange is a no-op when the current URL and the extracted   *)
(* identifier equal the last-seen values: it removes nothing, inserts      *)
(* nothing and schedules no timer; so two consecutive checkUrlChange calls *)
(* with no URL or identifier change in between have the effect of one.     *)
(***************************************************************************)
C34_NoChangeNoOp ==
    loaded =>
        /\ (currentUrl = Href[page] /\ lastRecordId = ExtractTable[page][dom.dataRec])
              => \A r \in {checkUrlChange(St)} :
                    /\ r.dom = dom
                    /\ r.timers = timers
                    /\ r.currentUrl = currentUrl /\ r.lastRecordId = lastRecordId
                    /\ ~r.mut
        /\ \A r \in {checkUrlChange(St)} : checkUrlChange(r) = r

\* the loop has seen the record page, the element is docked and no timer
\* is pending
C34_Witness ==
    /\ loaded
    /\ page = "LRecA"
    /\ currentUrl = Href[page] /\ lastRecordId = IdA
    /\ dom.kids = <<"li">> /\ dom.cont = "light"
    /\ timers = NoTimers

(***************************************************************************)
(* C35: the element inserted by the initial tryInsert of the script body   *)
(* is not removed by the loop while neither the URL nor the identifier     *)
(* changes: in the state the script body leaves on a record page with its  *)
(* element inserted, a checkUrlChange does not take the navigation branch  *)
(* and changes nothing.                                                    *)
(***************************************************************************)
C35_FirstCheckKeeps ==
    [][(/\ ~loaded /\ loaded'
        /\ HasInjected(dom')
        /\ ExtractTable[page'][dom'.dataRec] # Null)
          => (/\ ~Changed(St)
              /\ checkUrlChange(St) = St)']_vars

(***************************************************************************)
(* The script on a host page that falls silent: until HostQuiesce the page *)
(* navigates, adds and removes elements, changes attributes and receives   *)
(* settingsUpdated messages; from then on only the timers of the script    *)
(* and its interval run, each followed by the observer callbacks its own   *)
(* DOM writes cause.                                                       *)
(***************************************************************************)
LiveAddContainer ==
    /\ ~hostQuiet
    /\ HostAddContainer

LiveAddDataRecord ==
    /\ ~hostQuiet
    /\ HostAddDataRecord

LiveAttrMutation ==
    /\ ~hostQuiet
    /\ HostAttrMutation

LiveMessage ==
    /\ ~hostQuiet
    /\ OnMessage

NextSettle ==
    \/ Load
    \/ Popstate
    \/ PushState
    \/ ReplaceState
    \/ UnseenNavigate
    \/ LiveAddContainer
    \/ HostRemoveContainer
    \/ LiveAddDataRecord
    \/ HostRemoveDataRecord
    \/ LiveAttrMutation
    \/ LiveMessage
    \/ HostQuiesce
    \/ CheckTimer
    \/ TryTimer
    \/ SettleTimer
    \/ DeferredRetryLightning
    \/ DeferredRetryClassic
    \/ SettingsTimer
    \/ PeriodicTick

SpecSettle == Init /\ [][NextSettle]_vars /\ Fairness

\* no timer of the script is pending, and the task of the periodic tick,
\* observer callbacks included, leaves everything as it is
Settled ==
    /\ timers = NoTimers
    /\ Deliver(periodicCheck(St)) = St

Keeps(d, d2) ==
    /\ d2.cont = d.cont
    /\ Len(d2.kids) >= Len(d.kids)
    /\ SubSeq(d2.kids, Len(d2.kids) - Len(d.kids) + 1, Len(d2.kids)) = d.kids
    /\ d.flt => d2.flt

(***************************************************************************)
(* C37: an injected element is removed only by checkUrlChange (on a URL or *)
(* identifier difference) and by the settingsUpdated handler: tryInsert,   *)
(* the docked and the floating insertion, the deferred retries, the settle *)
(* callback and the periodic tick never remove or replace an injected      *)
(* element that exists, and neither does checkUrlChange when nothing has   *)
(* changed nor the handler on another message.                             *)
(***************************************************************************)
C37_RemovalFrame ==
    loaded =>
        /\ Keeps(dom, tryInsert(St).dom)
        /\ Keeps(dom, insertInGlobalActionsUl(St).st.dom)
        /\ Keeps(dom, insertInClassicPage(St).st.dom)
        /\ Keeps(dom, insertFloatingButton(St).dom)
        /\ Keeps(dom, deferredRetryLightning(St).dom)
        /\ Keeps(dom, deferredRetryClassic(St).dom)
        /\ Keeps(dom, settleCallback(St).dom)
        /\ Keeps(dom, periodicCheck(St).dom)
        /\ ~Changed(St) => Keeps(dom, checkUrlChange(St).dom)
        /\ Keeps(dom, onSettingsMessage(St, "other").dom)

\* a docked element exists while a tryInsert of an earlier navigation, a
\* settle callback and a deferred retry are still to run
C37_Witness ==
    /\ loaded
    /\ HasDocked(dom)
    /\ timers["try"] > 0
    /\ timers["settle"] > 0
    /\ timers["retryL"] > 0

(***************************************************************************)
(* C38: whenever the docked <li> marker is present it contains the docked  *)
(* button: the script never leaves an empty <li> wrapper, so the presence  *)
(* checks never report "already inserted" while no button exists.          *)
(***************************************************************************)
C38_LiHoldsButton ==
    /\ ~SeqHas(dom.kids, {"liEmpty"})
    /\ MarkerVisible(dom) => Clickable(dom)

=============================================================================
